---- MODULE Spec2Model ----
(***************************************************************************)
(* Model of the receipt-recording scripts: the thread aggregator           *)
(* (ThreadList), the ledger partitioner (recordReceipts,                   *)
(* getNextOpenTransactionRange, addTransactionSheet) and the split engine  *)
(* (splitTransaction).                                                     *)
(*                                                                         *)
(* Optional JavaScript values (number | undefined, string | undefined) and *)
(* spreadsheet cells are sequences of length 0 or 1: None is undefined or  *)
(* an empty cell, Some(v) holds v.                                         *)
(***************************************************************************)
EXTENDS Integers, Sequences, FiniteSets, TLC

VARIABLES
  threads,      \* the GmailThread[] handed to the ThreadList constructor
  threadInfos,  \* ThreadList.threadInfos
  phase,        \* position of the run
  ledger,       \* the transaction sheets of the spreadsheet, in getSheets() order
  ledgerBefore, \* the ledger when the last operation started
  marked,       \* ids of the threads passed to markThreadProcessed
  runResult,    \* outcome of the last operation
  now,          \* the instant new Date() gives
  templateSheet, \* whether getSheetByName(TemplateName) finds the template sheet
  variablesCache \* Variables.variablesCache: None until getVariables() has run

vars ==
  <<threads, threadInfos, phase, ledger, ledgerBefore, marked, runResult, now,
    templateSheet, variablesCache>>

None == <<>>
Some(v) == <<v>>
IsSome(o) == o # None
Val(o) == o[1]

\* Longest message list of a thread and largest batch of threads
MaxMsgs == 2
MaxThreads == 2
\* Largest batch handed to recordReceipts
MaxRecordThreads == 1

RECURSIVE SeqsUpTo(_, _)
\* all sequences over S of length at most n
SeqsUpTo(S, n) ==
  IF n = 0 THEN {<<>>}
  ELSE LET shorter == SeqsUpTo(S, n - 1)
       IN  shorter \cup {Append(s, x) : s \in {t \in shorter : Len(t) = n - 1}, x \in S}


(***************************************************************************)
(* Messages.  A message is                                                 *)
(*   [id, from, to, subject, body, date]                                   *)
(* from, to: None when the header holds no address, else Some(address)     *)
(* subject: [kind, fwd, cost, name, details]: the subject pattern the text *)
(*          matches, whether it starts with "Fwd: ", and what the named    *)
(*          groups capture (cost after parseFloat)                         *)
(* body:    [fwdFrom, merchant, sent, received, paid, charged]: the        *)
(*          address after the forwarding banner and, per body pattern,     *)
(*          None or Some([cost, name, details]) as captured                *)
(***************************************************************************)
chaseReceiptEmailAddress == "no.reply.alerts@chase.com"
paypalReceiptEmailAddress == "service@paypal.com"
venmoReceiptEmailAddress == "venmo@venmo.com"
\* the rows of the Variables sheet that the classifier uses
VariablesSheet == [ForwardEmailAddress |-> "forward@example.com", ForwardName |-> "Fwd"]

\* variant: the cache is built from the rows without a key, the sheet is read with them
getVariablesFromFilteredOut(cache) ==
  IF IsSome(cache) THEN [ForwardEmailAddress |-> "undefined", ForwardName |-> "undefined"]
  ELSE VariablesSheet

\* Variables.getVariables(): the cache when it is filled, else the sheet
getVariables(cache) == IF IsSome(cache) THEN Val(cache) ELSE VariablesSheet

\* variablesCache after a call of getVariables()
CacheAfterGetVariables == IF IsSome(variablesCache) THEN variablesCache ELSE Some(VariablesSheet)

ForwardEmailAddress == getVariables(variablesCache).ForwardEmailAddress
ForwardName == getVariables(variablesCache).ForwardName

\* parseFloat of a captured cost text (a magnitude); undefined without the group
getMessagePartInfo(part, kind) ==
  IF part.kind = kind
    THEN Some([cost |-> part.cost, name |-> part.name, details |-> part.details])
    ELSE None

\* message.getSubject() matched against a subject pattern, direct or forwarded
SubjectInfo(message, kind, isForwarded) ==
  IF message.subject.fwd = isForwarded
    THEN getMessagePartInfo(message.subject, kind)
    ELSE None

\* the plain body matched against one of the body patterns
BodyInfo(message, field) == message.body[field]

ReceiptInfo(message, cost, name, category, type) ==
  [msg |-> message.id, date |-> message.date, cost |-> cost, name |-> name,
   category |-> category, type |-> type, errorMessage |-> <<>>, note |-> <<>>]

\* a template literal prints undefined as "undefined"
Str(o) == IF IsSome(o) THEN Val(o) ELSE "undefined"

\* variant: the captured amount is passed on as it is
KeepSign(cost) == cost

Negate(cost) == IF IsSome(cost) THEN Some(Val(cost) * (0 - 1)) ELSE None

getReceiptInfoChase(message) ==
  LET receipt == SubjectInfo(message, "ChaseReceipt", FALSE)
      refund == SubjectInfo(message, "ChaseRefund", FALSE)
      gas == SubjectInfo(message, "ChaseGas", FALSE)
      merchant == BodyInfo(message, "merchant")
  IN  IF IsSome(receipt)
        THEN ReceiptInfo(message, Val(receipt).cost, Val(receipt).name, None, "Credit")
      ELSE IF IsSome(refund)
        THEN ReceiptInfo(message, Negate(Val(refund).cost),
                         IF IsSome(merchant) THEN Val(merchant).name ELSE None,
                         None, "Credit")
      ELSE IF IsSome(gas) /\ IsSome(merchant)
        THEN ReceiptInfo(message, None, Some(Str(Val(merchant).name) \o " (Gas)"),
                         Some("Gas"), "Credit")
      ELSE ReceiptInfo(message, None, None, None, "Credit")

Joined(name, details) == Some(Str(name) \o " - " \o Str(details))

\* the type prefix: the given one, else ForwardName when sent to the relay, else "TJ"
TypePrefix(message, typePrefix) ==
  IF IsSome(typePrefix) THEN Val(typePrefix)
  ELSE IF message.to = Some(ForwardEmailAddress) THEN ForwardName
  ELSE "TJ"

getReceiptInfoPaypal(message, isForwarded, typePrefix) ==
  LET type == TypePrefix(message, typePrefix) \o " Paypal"
      sentSubject == SubjectInfo(message, "PaypalSent", isForwarded)
      receivedSubject == SubjectInfo(message, "PaypalReceived", isForwarded)
      sent == BodyInfo(message, "sent")
      received == BodyInfo(message, "received")
  IN  IF IsSome(sentSubject)
        THEN ReceiptInfo(message, Val(sentSubject).cost,
                         IF IsSome(sent)
                           THEN Joined(Val(sent).name, Val(sent).details)
                           ELSE None,
                         None, type)
      ELSE IF IsSome(receivedSubject) /\ IsSome(received)
        THEN ReceiptInfo(message, Negate(Val(received).cost),
                         Joined(Val(received).name, Val(received).details), None, type)
      ELSE ReceiptInfo(message, None, None, None, type)

getReceiptInfoVenmo(message, isForwarded, typePrefix) ==
  LET type == TypePrefix(message, typePrefix) \o " Venmo"
      paidSubject == SubjectInfo(message, "VenmoPaid", isForwarded)
      chargeSubject == SubjectInfo(message, "VenmoCharge", isForwarded)
      receivedSubject == SubjectInfo(message, "VenmoReceived", isForwarded)
      paid == BodyInfo(message, "paid")
      charged == BodyInfo(message, "charged")
  IN  IF IsSome(paidSubject)
        THEN ReceiptInfo(message, Val(paidSubject).cost,
                         IF IsSome(paid)
                           THEN Joined(Val(paidSubject).name, Val(paid).details)
                           ELSE Val(paidSubject).name,
                         None, type)
      ELSE IF IsSome(chargeSubject)
        THEN ReceiptInfo(message, Val(chargeSubject).cost,
                         IF IsSome(charged)
                           THEN Joined(Val(chargeSubject).name, Val(charged).details)
                           ELSE Val(chargeSubject).name,
                         None, type)
      ELSE IF IsSome(receivedSubject)
        \* name is never assigned from the subject on this branch
        THEN ReceiptInfo(message, Negate(Val(receivedSubject).cost),
                         IF IsSome(paid) THEN Joined(None, Val(paid).details) ELSE None,
                         None, type)
      ELSE ReceiptInfo(message, None, None, None, type)

\* getForwardEmailAddress: the address after the forwarding banner; throws without one
getForwardEmailAddress(message) == message.body.fwdFrom

\* Outcome of classifying one message: [threw, cause] or [threw, receipt]; cause is
\* the message of the Error thrown
Threw(cause) == [threw |-> TRUE, cause |-> cause]
Returned(receipt) == [threw |-> FALSE, receipt |-> receipt]

\* the handler the proxy returns for the forwarding relay's address
getReceiptInfoForwarded(message) ==
  LET forwardedFrom == getForwardEmailAddress(message)
  IN  IF forwardedFrom = None THEN Threw("Could not get 'from' email address")
      ELSE IF Val(forwardedFrom) = paypalReceiptEmailAddress
        THEN Returned(getReceiptInfoPaypal(message, TRUE, Some(ForwardName)))
      ELSE IF Val(forwardedFrom) = venmoReceiptEmailAddress
        THEN Returned(getReceiptInfoVenmo(message, TRUE, Some(ForwardName)))
      ELSE Returned(ReceiptInfo(message, None, None, None, "undefined"))

\* variant: an address without a handler gives an empty receipt instead of a throw
getReceiptInfoEmptyForUnknown(message) ==
  IF message.from = None THEN Threw("Could not get email address")
  ELSE IF Val(message.from) = ForwardEmailAddress THEN getReceiptInfoForwarded(message)
  ELSE IF Val(message.from) = chaseReceiptEmailAddress
    THEN Returned(getReceiptInfoChase(message))
  ELSE IF Val(message.from) = paypalReceiptEmailAddress
    THEN Returned(getReceiptInfoPaypal(message, FALSE, None))
  ELSE IF Val(message.from) = venmoReceiptEmailAddress
    THEN Returned(getReceiptInfoVenmo(message, FALSE, None))
  ELSE Returned(ReceiptInfo(message, None, None, None, "undefined"))

\* getEmailAddress(message.getFrom()), the lookup in getReceiptInfoMap and the call
getReceiptInfo(message) ==
  IF message.from = None THEN Threw("Could not get email address")
  ELSE IF Val(message.from) = ForwardEmailAddress THEN getReceiptInfoForwarded(message)
  ELSE IF Val(message.from) = chaseReceiptEmailAddress
    THEN Returned(getReceiptInfoChase(message))
  ELSE IF Val(message.from) = paypalReceiptEmailAddress
    THEN Returned(getReceiptInfoPaypal(message, FALSE, None))
  ELSE IF Val(message.from) = venmoReceiptEmailAddress
    THEN Returned(getReceiptInfoVenmo(message, FALSE, None))
  ELSE Threw("No function to handle receipt message")

\* JavaScript's !x for number | undefined and string | undefined
FalsyCost(cost) == cost = None \/ Val(cost) = 0
FalsyName(name) == name = None \/ Val(name) = ""


(***************************************************************************)
(* ThreadList constructor.  A thread is [id, enumerable, messages,         *)
(* lastMessageDate]; getMessages() throws when enumerable is FALSE.        *)
(***************************************************************************)
ThreadInfo(thread) ==
  [thread |-> thread.id, lastMessageDate |-> thread.lastMessageDate,
   receiptInfos |-> <<>>, notes |-> <<>>, errors |-> <<>>]

\* variant: a message that is no receipt leaves a note and is pushed as a receipt too
ProcessMessageKeepingAll(threadInfo, message) ==
  LET got == getReceiptInfo(message)
  IN  IF got.threw
        THEN [threadInfo EXCEPT
                !.errors = Append(@, [kind |-> "message", msg |-> message.id, cause |-> got.cause])]
      ELSE IF FalsyCost(got.receipt.cost) /\ FalsyName(got.receipt.name)
        THEN [threadInfo EXCEPT !.notes = Append(@, [msg |-> message.id]),
                                !.receiptInfos = Append(@, got.receipt)]
      ELSE [threadInfo EXCEPT !.receiptInfos = Append(@, got.receipt)]

\* body of messages.forEach: one message, with its try/catch
ProcessMessage(threadInfo, message) ==
  LET got == getReceiptInfo(message)
  IN  IF got.threw
        THEN [threadInfo EXCEPT
                !.errors = Append(@, [kind |-> "message", msg |-> message.id, cause |-> got.cause])]
      ELSE IF FalsyCost(got.receipt.cost) /\ FalsyName(got.receipt.name)
        THEN [threadInfo EXCEPT !.notes = Append(@, [msg |-> message.id])]
      ELSE [threadInfo EXCEPT !.receiptInfos = Append(@, got.receipt)]

RECURSIVE ProcessMessagesUntilThrow(_, _)
\* variant: the try/catch around the whole loop, so a throw ends the loop
ProcessMessagesUntilThrow(threadInfo, messages) ==
  IF messages = <<>> THEN threadInfo
  ELSE IF getReceiptInfo(Head(messages)).threw
    THEN ProcessMessage(threadInfo, Head(messages))
    ELSE ProcessMessagesUntilThrow(ProcessMessage(threadInfo, Head(messages)),
                                   Tail(messages))

RECURSIVE ProcessMessages(_, _)
ProcessMessages(threadInfo, messages) ==
  IF messages = <<>> THEN threadInfo
  ELSE ProcessMessages(ProcessMessage(threadInfo, Head(messages)), Tail(messages))

\* the outer try/catch around thread.getMessages() and the loop
ProcessThread(thread) ==
  IF thread.enumerable
    THEN ProcessMessages(ThreadInfo(thread), thread.messages)
    ELSE [ThreadInfo(thread) EXCEPT !.errors = Append(@, [kind |-> "thread", msg |-> 0, cause |-> "getMessages"])]

\* variant: notes count as information
hasInformationOrNotes(threadInfo) ==
  Len(threadInfo.receiptInfos) > 0 \/ Len(threadInfo.errors) > 0
    \/ Len(threadInfo.notes) > 0

hasInformation(threadInfo) ==
  Len(threadInfo.receiptInfos) > 0 \/ Len(threadInfo.errors) > 0

RECURSIVE ThreadListConstructorUntilThrow(_)
\* variant: no try/catch around getMessages(), the throw ends threads.forEach
ThreadListConstructorUntilThrow(ths) ==
  IF ths = <<>> THEN <<>>
  ELSE LET threadInfo == ProcessThread(Head(ths))
       IN  IF ~Head(ths).enumerable THEN <<threadInfo>>
           ELSE (IF hasInformation(threadInfo) THEN <<threadInfo>> ELSE <<>>)
                  \o ThreadListConstructorUntilThrow(Tail(ths))

RECURSIVE ThreadListConstructor(_)
\* threads.forEach: the threadInfos pushed, in thread order
ThreadListConstructor(ths) ==
  IF ths = <<>> THEN <<>>
  ELSE LET threadInfo == ProcessThread(Head(ths))
       IN  (IF hasInformation(threadInfo) THEN <<threadInfo>> ELSE <<>>)
             \o ThreadListConstructor(Tail(ths))


(***************************************************************************)
(* Inputs of the aggregator: batches of threads over a pool of messages.   *)
(***************************************************************************)
NoPart == [kind |-> "Other", fwd |-> FALSE, cost |-> None, name |-> None, details |-> None]
NoBody ==
  [fwdFrom |-> None, merchant |-> None, sent |-> None, received |-> None,
   paid |-> None, charged |-> None]

\* "Your $5 transaction with Store" from the credit provider
ChaseReceiptShape(date) ==
  [from |-> Some(chaseReceiptEmailAddress), to |-> Some("me@example.com"),
   subject |-> [NoPart EXCEPT !.kind = "ChaseReceipt", !.cost = Some(5),
                                !.name = Some("Store")],
   body |-> NoBody, date |-> date]
\* a message of the credit provider that matches no pattern
ChaseOtherShape(date) ==
  [from |-> Some(chaseReceiptEmailAddress), to |-> Some("me@example.com"),
   subject |-> NoPart, body |-> NoBody, date |-> date]
\* a message from an address no handler is registered for
UnknownShape(date) ==
  [from |-> Some("other@example.com"), to |-> Some("me@example.com"),
   subject |-> NoPart, body |-> NoBody, date |-> date]

\* "You have a $0 credit pending on your credit card", no Merchant line in the body
ChaseZeroRefundShape(date) ==
  [from |-> Some(chaseReceiptEmailAddress), to |-> Some("me@example.com"),
   subject |-> [NoPart EXCEPT !.kind = "ChaseRefund", !.cost = Some(0)],
   body |-> NoBody, date |-> date]

AggregatorShapes ==
  {ChaseReceiptShape(1), ChaseOtherShape(1), ChaseZeroRefundShape(1), UnknownShape(1)}

Message(shape, id) ==
  [id |-> id, from |-> shape.from, to |-> shape.to, subject |-> shape.subject,
   body |-> shape.body, date |-> shape.date]

\* thread number t of a batch: message ids are 10 * t + position
Thread(t, enumerable, shapes) ==
  [id |-> t, enumerable |-> enumerable,
   messages |-> [i \in 1..Len(shapes) |-> Message(shapes[i], 10 * t + i)],
   lastMessageDate |-> IF shapes = <<>> THEN 1 ELSE shapes[Len(shapes)].date]

ThreadShapes(pool) ==
  {[enumerable |-> TRUE, shapes |-> s] : s \in SeqsUpTo(pool, MaxMsgs)}
    \cup {[enumerable |-> FALSE, shapes |-> <<>>]}

Batch(b) == [t \in 1..Len(b) |-> Thread(t, b[t].enumerable, b[t].shapes)]

(***************************************************************************)
(* The aggregator alone: new ThreadList(threads)                           *)
(***************************************************************************)
InitAggregate ==
  /\ \E n \in 0..MaxThreads :
       \E b \in [1..n -> ThreadShapes(AggregatorShapes)] : threads = Batch(b)
  /\ threadInfos = <<>>
  /\ phase = "new"
  /\ ledger = <<>>
  /\ ledgerBefore = <<>>
  /\ marked = {}
  /\ runResult = [op |-> "none"]
  /\ now = 0
  /\ templateSheet = TRUE
  /\ variablesCache = None

Construct ==
  /\ phase = "new"
  /\ threadInfos' = ThreadListConstructor(threads)
  /\ phase' = "built"
  \* the lookup getReceiptInfoMap[from] goes through the proxy, which calls getVariables()
  /\ variablesCache' =
       IF \E t \in 1..Len(threads) :
            /\ threads[t].enumerable
            /\ \E i \in 1..Len(threads[t].messages) : IsSome(threads[t].messages[i].from)
         THEN CacheAfterGetVariables
         ELSE variablesCache
  /\ UNCHANGED <<threads, ledger, ledgerBefore, marked, runResult, now, templateSheet>>

NextAggregate == Construct

SpecAggregate == InitAggregate /\ [][NextAggregate]_vars


(***************************************************************************)
(* Time.  An instant is a number of ticks; a day has TicksPerDay ticks,    *)
(* tick 0 of a day is 00:00:00.000 and tick TicksPerDay - 1 is             *)
(* 23:59:59.999, the last instant of the day.                              *)
(***************************************************************************)
TicksPerDay == 4
StartOfDay(day) == day * TicksPerDay
EndOfDay(day) == day * TicksPerDay + (TicksPerDay - 1)
DayOf(instant) == instant \div TicksPerDay

(***************************************************************************)
(* The ledger.  A sheet is [startDay, endDay, gap, rows]: the two days its *)
(* name holds, whether the name holds "(Gap)", and the rows of its         *)
(* transaction window.  A row is                                           *)
(*   [date, name, cost, category, type, note, nameBg, costBg]              *)
(* with cells None (empty) or Some(value).                                 *)
(***************************************************************************)
\* Variables.getSheetVariables(sheet).TransactionsMax
TransactionsMax == 4

EmptyRow ==
  [date |-> None, name |-> None, cost |-> None, category |-> None, type |-> None,
   note |-> None, nameBg |-> None, costBg |-> None]

\* the date, name and cost values of the row are all ""
ValuesEmpty(row) == row.date = None /\ row.name = None /\ row.cost = None

\* the name parsed back into the window of the sheet
TransactionSheetInfo(sheet) ==
  [startDate |-> StartOfDay(sheet.startDay), endDate |-> EndOfDay(sheet.endDay),
   gap |-> sheet.gap]

getTransactionSheetInfos(sheets) == [i \in 1..Len(sheets) |-> TransactionSheetInfo(sheets[i])]

RECURSIVE FirstEmptyIndex(_, _)
\* variant: scans forward from the first row to the first row without values
FirstEmptyIndex(rows, index) ==
  IF index < Len(rows) /\ ~ValuesEmpty(rows[index + 1])
    THEN FirstEmptyIndex(rows, index + 1)
    ELSE index

\* variant of LastFilledIndex built on the forward scan
LastFilledIndexForward(rows, index) == FirstEmptyIndex(rows, 0) - 1

RECURSIVE LastFilledIndex(_, _)
\* the backtracking loop: the index (from 0) of the last row with a value, -1 if none
LastFilledIndex(rows, index) ==
  IF index >= 0 /\ ValuesEmpty(rows[index + 1])
    THEN LastFilledIndex(rows, index - 1)
    ELSE index

\* getNextOpenTransactionRange: [threw, first], first counted from 0
getNextOpenTransactionRange(rows, transactionsCount) ==
  LET firstEmptyTransactionIndex == LastFilledIndex(rows, TransactionsMax - 1) + 1
  IN  IF firstEmptyTransactionIndex >= 0
         /\ firstEmptyTransactionIndex + transactionsCount > TransactionsMax
        THEN [threw |-> TRUE, first |-> firstEmptyTransactionIndex]
        ELSE [threw |-> FALSE, first |-> firstEmptyTransactionIndex]

\* what setValues, setNote and setBackground leave in the row a receipt is written to
RecordedRow(row, receiptInfo) ==
  LET hasNote == receiptInfo.errorMessage # <<>> \/ receiptInfo.note # <<>>
  IN  [row EXCEPT
         !.date = Some(receiptInfo.date),
         !.name = receiptInfo.name,
         !.cost = receiptInfo.cost,
         !.costBg = IF FalsyCost(receiptInfo.cost) THEN Some("#E8A9CA") ELSE @,
         !.note = IF hasNote
                    THEN Some([errors |-> receiptInfo.errorMessage,
                               notes |-> receiptInfo.note])
                    ELSE @,
         !.nameBg = IF ~hasNote THEN @
                    ELSE IF receiptInfo.errorMessage # <<>> THEN Some("#FF0000")
                    ELSE Some("#E8A9CA")]

\* recordReceiptsOnSheet: [threw, rows]
recordReceiptsOnSheet(rows, receiptInfos) ==
  LET range == getNextOpenTransactionRange(rows, Len(receiptInfos))
  IN  IF range.threw THEN [threw |-> TRUE, rows |-> rows]
      ELSE [threw |-> FALSE,
            rows |-> [i \in 1..Len(rows) |->
                        IF i > range.first /\ i <= range.first + Len(receiptInfos)
                          THEN RecordedRow(rows[i], receiptInfos[i - range.first])
                          ELSE rows[i]]]


(***************************************************************************)
(* ThreadList.getAllReceiptInfos                                           *)
(***************************************************************************)
EmptyReceipt(date, thread) ==
  [msg |-> 0, date |-> date, cost |-> None, name |-> None, category |-> None,
   type |-> "undefined", errorMessage |-> <<>>, note |-> <<>>, thread |-> thread]

\* the separators of errors.join(...) and notes.join(...)
NextError == [kind |-> "NEXT ERROR", msg |-> 0, cause |-> ""]
NextNote == [msg |-> 0]

RECURSIVE Join(_, _)
\* Array.prototype.join: the elements with the separator between each two of them
Join(list, separator) ==
  IF Len(list) <= 1 THEN list
  ELSE <<Head(list), separator>> \o Join(Tail(list), separator)

\* [...threadInfo.receiptInfos], or the one EmptyReceipt of a thread without receipts
ThreadReceiptInfos(threadInfo) ==
  IF Len(threadInfo.receiptInfos) = 0
    THEN <<EmptyReceipt(threadInfo.lastMessageDate, threadInfo.thread)>>
    ELSE [i \in 1..Len(threadInfo.receiptInfos) |->
            [msg |-> threadInfo.receiptInfos[i].msg,
             date |-> threadInfo.receiptInfos[i].date,
             cost |-> threadInfo.receiptInfos[i].cost,
             name |-> threadInfo.receiptInfos[i].name,
             category |-> threadInfo.receiptInfos[i].category,
             type |-> threadInfo.receiptInfos[i].type,
             errorMessage |-> <<>>, note |-> <<>>,
             thread |-> threadInfo.thread]]

\* variant: the errors and notes are set on every receipt of the thread
FlattenThreadOnEvery(threadInfo) ==
  [i \in 1..Len(ThreadReceiptInfos(threadInfo)) |->
     [ThreadReceiptInfos(threadInfo)[i] EXCEPT
        !.errorMessage = Join(threadInfo.errors, NextError),
        !.note = Join(threadInfo.notes, NextNote)]]

\* the receipts of one thread, errors and notes baked into the first
FlattenThread(threadInfo) ==
  [ThreadReceiptInfos(threadInfo) EXCEPT
     ![1].errorMessage = Join(threadInfo.errors, NextError),
     ![1].note = Join(threadInfo.notes, NextNote)]

RECURSIVE FlatMap(_)
FlatMap(infos) ==
  IF infos = <<>> THEN <<>> ELSE FlattenThread(Head(infos)) \o FlatMap(Tail(infos))

compareReceiptInfosByDateAscending(a, b) ==
  IF a.date > b.date THEN 1 ELSE IF a.date = b.date THEN 0 ELSE 0 - 1

RECURSIVE InsertSortedBeforeEqual(_, _)
\* variant: x placed before the first element that does not compare smaller than it
InsertSortedBeforeEqual(sorted, x) ==
  IF sorted = <<>> THEN <<x>>
  ELSE IF compareReceiptInfosByDateAscending(Head(sorted), x) >= 0
    THEN <<x>> \o sorted
    ELSE <<Head(sorted)>> \o InsertSortedBeforeEqual(Tail(sorted), x)

RECURSIVE InsertSorted(_, _)
\* x placed after every element that does not compare greater than it
InsertSorted(sorted, x) ==
  IF sorted = <<>> THEN <<x>>
  ELSE IF compareReceiptInfosByDateAscending(Head(sorted), x) > 0
    THEN <<x>> \o sorted
    ELSE <<Head(sorted)>> \o InsertSorted(Tail(sorted), x)

RECURSIVE SortReceipts(_, _)
\* Array.prototype.sort, a stable sort
SortReceipts(sorted, rest) ==
  IF rest = <<>> THEN sorted
  ELSE SortReceipts(InsertSorted(sorted, Head(rest)), Tail(rest))

getAllReceiptInfos(infos) == SortReceipts(<<>>, FlatMap(infos))

(***************************************************************************)
(* recordReceipts                                                          *)
(***************************************************************************)
\* the predicate of transactionSheetInfos.find
InWindow(receiptInfo, tSheetInfo) ==
  receiptInfo.date >= tSheetInfo.startDate /\ receiptInfo.date < tSheetInfo.endDate

\* index of the first sheet whose window holds the receipt, 0 when find gives undefined
FindSheet(receiptInfo, tSheetInfos) ==
  LET found == {i \in 1..Len(tSheetInfos) : InWindow(receiptInfo, tSheetInfos[i])}
  IN  IF found = {} THEN 0 ELSE CHOOSE i \in found : \A j \in found : i <= j

\* receiptInfosToAdd of sheet i once every receipt is grouped
ReceiptInfosToAdd(receiptInfos, tSheetInfos, i) ==
  LET OnSheet(receiptInfo) == FindSheet(receiptInfo, tSheetInfos) = i
  IN  SelectSeq(receiptInfos, OnSheet)

RECURSIVE RecordOnSheets(_, _, _, _)
\* transactionSheetInfos.forEach from sheet i on: [threw, sheets]
RecordOnSheets(sheets, receiptInfos, tSheetInfos, i) ==
  IF i > Len(sheets) THEN [threw |-> FALSE, sheets |-> sheets]
  ELSE LET toAdd == ReceiptInfosToAdd(receiptInfos, tSheetInfos, i)
           recorded == recordReceiptsOnSheet(sheets[i].rows, toAdd)
       IN  IF Len(toAdd) = 0 THEN RecordOnSheets(sheets, receiptInfos, tSheetInfos, i + 1)
           ELSE IF recorded.threw THEN [threw |-> TRUE, sheets |-> sheets]
           ELSE RecordOnSheets([sheets EXCEPT ![i].rows = recorded.rows],
                               receiptInfos, tSheetInfos, i + 1)

\* variant: the errors of a thread do not stop its marking
ThreadsToMarkDespiteErrors(infos, shouldMarkProcessed) ==
  {infos[i].thread : i \in {j \in 1..Len(infos) : shouldMarkProcessed}}

\* ids of the threads the last loop passes to markThreadProcessed
ThreadsToMark(infos, shouldMarkProcessed) ==
  {infos[i].thread : i \in {j \in 1..Len(infos) :
                              Len(infos[j].errors) = 0 /\ shouldMarkProcessed}}

\* variant: a receipt no sheet holds is dropped instead of failing the run
recordReceiptsDroppingUnmapped(infos, sheets, shouldMarkProcessed) ==
  LET receiptInfos == getAllReceiptInfos(infos)
      tSheetInfos == getTransactionSheetInfos(sheets)
      recorded == RecordOnSheets(sheets, receiptInfos, tSheetInfos, 1)
  IN  IF recorded.threw
        THEN [result |-> "NoRoom", sheets |-> recorded.sheets, marked |-> {}]
      ELSE [result |-> "ok", sheets |-> recorded.sheets,
            marked |-> ThreadsToMark(infos, shouldMarkProcessed)]

\* variant: the threads are marked although a sheet had no room for its receipts
recordReceiptsMarkingWritten(infos, sheets, shouldMarkProcessed) ==
  LET receiptInfos == getAllReceiptInfos(infos)
      tSheetInfos == getTransactionSheetInfos(sheets)
      unmapped == \E i \in 1..Len(receiptInfos) : FindSheet(receiptInfos[i], tSheetInfos) = 0
      recorded == RecordOnSheets(sheets, receiptInfos, tSheetInfos, 1)
  IN  IF unmapped THEN [result |-> "NotFound", sheets |-> sheets, marked |-> {}]
      ELSE [result |-> IF recorded.threw THEN "NoRoom" ELSE "ok", sheets |-> recorded.sheets,
            marked |-> ThreadsToMark(infos, shouldMarkProcessed)]

\* recordReceipts: [result, sheets, marked]
\* variant: a sheet without room undoes the rows written to the sheets before it
recordReceiptsRollingBack(infos, sheets, shouldMarkProcessed) ==
  LET receiptInfos == getAllReceiptInfos(infos)
      tSheetInfos == getTransactionSheetInfos(sheets)
      unmapped == \E i \in 1..Len(receiptInfos) : FindSheet(receiptInfos[i], tSheetInfos) = 0
      recorded == RecordOnSheets(sheets, receiptInfos, tSheetInfos, 1)
  IN  IF unmapped THEN [result |-> "NotFound", sheets |-> sheets, marked |-> {}]
      ELSE IF recorded.threw
        THEN [result |-> "NoRoom", sheets |-> sheets, marked |-> {}]
      ELSE [result |-> "ok", sheets |-> recorded.sheets,
            marked |-> ThreadsToMark(infos, shouldMarkProcessed)]

recordReceipts(infos, sheets, shouldMarkProcessed) ==
  LET receiptInfos == getAllReceiptInfos(infos)
      tSheetInfos == getTransactionSheetInfos(sheets)
      unmapped == \E i \in 1..Len(receiptInfos) : FindSheet(receiptInfos[i], tSheetInfos) = 0
      recorded == RecordOnSheets(sheets, receiptInfos, tSheetInfos, 1)
  IN  IF unmapped THEN [result |-> "NotFound", sheets |-> sheets, marked |-> {}]
      ELSE IF recorded.threw
        THEN [result |-> "NoRoom", sheets |-> recorded.sheets, marked |-> {}]
      ELSE [result |-> "ok", sheets |-> recorded.sheets,
            marked |-> ThreadsToMark(infos, shouldMarkProcessed)]


(***************************************************************************)
(* A run of getAndRecordReceipts: new ThreadList(threads), then            *)
(* recordReceipts, on a spreadsheet of two pay periods.                    *)
(***************************************************************************)
\* Variables.getVariables().PayPeriodDays
PayPeriodDays == 2

\* a row recorded by an earlier run
OldRow == [EmptyRow EXCEPT !.date = Some(StartOfDay(1)), !.name = Some("Old"),
                           !.cost = Some(1)]

\* a window whose first `filled` rows hold transactions
Window(filled) == [i \in 1..TransactionsMax |-> IF i <= filled THEN OldRow ELSE EmptyRow]

FirstDay == 1
\* the newest sheet comes first, as addTransactionSheet inserts it
TwoSheets(filledNew, filledOld) ==
  << [startDay |-> FirstDay + PayPeriodDays, endDay |-> FirstDay + 2 * PayPeriodDays - 1,
      gap |-> FALSE, tabColor |-> None, rows |-> Window(filledNew)],
     [startDay |-> FirstDay, endDay |-> FirstDay + PayPeriodDays - 1,
      gap |-> FALSE, tabColor |-> None, rows |-> Window(filledOld)] >>

\* instants of receipts: the first instant of the old period, its last instant, an
\* instant inside the new period and the first instant after the new period
RecordDates ==
  {StartOfDay(FirstDay), EndOfDay(FirstDay + PayPeriodDays - 1),
   StartOfDay(FirstDay + PayPeriodDays) + 1, StartOfDay(FirstDay + 2 * PayPeriodDays)}

RecordShapes ==
  {ChaseReceiptShape(d) : d \in RecordDates} \cup {UnknownShape(StartOfDay(FirstDay))}

InitRecord ==
  /\ \E n \in 0..MaxRecordThreads :
       \E b \in [1..n -> ThreadShapes(RecordShapes)] : threads = Batch(b)
  /\ threadInfos = <<>>
  /\ phase = "new"
  /\ \E filledNew \in {0, TransactionsMax},
        filledOld \in {0, TransactionsMax - 1, TransactionsMax} :
       ledger = TwoSheets(filledNew, filledOld)
  /\ ledgerBefore = ledger
  /\ marked = {}
  /\ runResult = [op |-> "none"]
  /\ now = 0
  /\ templateSheet = TRUE
  /\ variablesCache = None

RecordReceipts(shouldMarkProcessed) ==
  /\ phase = "built"
  /\ LET run == recordReceipts(threadInfos, ledger, shouldMarkProcessed)
     IN  /\ ledger' = run.sheets
         /\ marked' = marked \cup run.marked
         /\ runResult' = [op |-> "recordReceipts", result |-> run.result,
                          shouldMarkProcessed |-> shouldMarkProcessed]
  /\ ledgerBefore' = ledger
  /\ phase' = "recorded"
  \* getNextOpenTransactionRange reads the sheet variables
  /\ variablesCache' =
       IF recordReceipts(threadInfos, ledger, shouldMarkProcessed).result # "NotFound"
          /\ getAllReceiptInfos(threadInfos) # <<>>
         THEN CacheAfterGetVariables
         ELSE variablesCache
  /\ UNCHANGED <<threads, threadInfos, now, templateSheet>>

NextRecord ==
  \/ Construct
  \/ \E shouldMarkProcessed \in BOOLEAN : RecordReceipts(shouldMarkProcessed)

SpecRecord == InitRecord /\ [][NextRecord]_vars


(***************************************************************************)
(* Properties of the aggregator                                            *)
(***************************************************************************)
Range(seq) == {seq[i] : i \in 1..Len(seq)}

\* the ThreadInfos kept for thread t
KeptFor(t) == {info \in Range(threadInfos) : info.thread = t}

ThrowingMessages(thread) ==
  {i \in 1..Len(thread.messages) : getReceiptInfo(thread.messages[i]).threw}

\* the number of entries the message left in the three lists of the ThreadInfo
Entries(info, message) ==
  Cardinality({k \in 1..Len(info.receiptInfos) : info.receiptInfos[k].msg = message.id})
  + Cardinality({k \in 1..Len(info.notes) : info.notes[k].msg = message.id})
  + Cardinality({k \in 1..Len(info.errors) : info.errors[k].msg = message.id})

\* C1: when classifying a message of a thread throws, the thread's errors hold
\* exactly one error for it, every other message of the thread is still classified
\* (it left exactly one entry), and the receipts of the messages before and after
\* it are all in the thread's receipts, in message order.
C1_BadMessageIsolated ==
  phase # "new" =>
    \A t \in 1..Len(threads) :
      threads[t].enumerable /\ ThrowingMessages(threads[t]) # {} =>
        /\ Cardinality(KeptFor(t)) = 1
        /\ \A info \in KeptFor(t) :
             /\ Len(info.errors) = Cardinality(ThrowingMessages(threads[t]))
             /\ \A i \in ThrowingMessages(threads[t]) :
                  \E k \in 1..Len(info.errors) :
                    /\ info.errors[k].kind = "message"
                    /\ info.errors[k].msg = threads[t].messages[i].id
             /\ \A j \in 1..Len(threads[t].messages) :
                  Entries(info, threads[t].messages[j]) = 1
             /\ \A j \in 1..Len(threads[t].messages) :
                  LET got == getReceiptInfo(threads[t].messages[j])
                  IN  ~got.threw
                      /\ ~(FalsyCost(got.receipt.cost) /\ FalsyName(got.receipt.name))
                        => \E k \in 1..Len(info.receiptInfos) :
                             info.receiptInfos[k] = got.receipt
             /\ \A k1, k2 \in 1..Len(info.receiptInfos) :
                  k1 < k2 => info.receiptInfos[k1].msg < info.receiptInfos[k2].msg

\* a thread whose first message throws and whose second message is a receipt
C1_Witness ==
  /\ phase = "built"
  /\ \E t \in 1..Len(threads) :
       /\ Len(threads[t].messages) = 2
       /\ ThrowingMessages(threads[t]) = {1}
       /\ \E info \in KeptFor(t) :
            /\ Len(info.errors) = 1
            /\ Len(info.receiptInfos) = 1
            /\ info.receiptInfos[1].msg = threads[t].messages[2].id

\* C2: a thread's ThreadInfo is in threadInfos exactly when the thread ended with a
\* receipt or an error; no ThreadInfo in threadInfos has both lists empty.
C2_KeptIffInformation ==
  phase # "new" =>
    /\ \A t \in 1..Len(threads) :
         LET info == ProcessThread(threads[t])
         IN  (info \in Range(threadInfos))
               <=> (Len(info.receiptInfos) > 0 \/ Len(info.errors) > 0)
    /\ \A info \in Range(threadInfos) :
         /\ Len(info.receiptInfos) > 0 \/ Len(info.errors) > 0
         /\ \E t \in 1..Len(threads) : info.thread = threads[t].id
    /\ \A k1, k2 \in 1..Len(threadInfos) :
         threadInfos[k1].thread = threadInfos[k2].thread => k1 = k2

\* a batch with a notes-only thread that is dropped and a thread that is kept
C2_Witness ==
  /\ phase = "built"
  /\ \E t \in 1..Len(threads) :
       /\ Len(ProcessThread(threads[t]).notes) > 0
       /\ KeptFor(t) = {}
  /\ \E t \in 1..Len(threads) : KeptFor(t) # {}


(***************************************************************************)
(* Properties of recordReceipts                                            *)
(***************************************************************************)
\* the receipt stands in a row of the ledger that held no values before the run
Written(receiptInfo) ==
  \E s \in 1..Len(ledger) : \E i \in 1..TransactionsMax :
    /\ ValuesEmpty(ledgerBefore[s].rows[i])
    /\ ledger[s].rows[i].date = Some(receiptInfo.date)
    /\ ledger[s].rows[i].name = receiptInfo.name
    /\ ledger[s].rows[i].cost = receiptInfo.cost
    /\ receiptInfo.errorMessage # <<>> =>
         /\ ledger[s].rows[i].note =
              Some([errors |-> receiptInfo.errorMessage, notes |-> receiptInfo.note])
         /\ ledger[s].rows[i].nameBg = Some("#FF0000")

Recorded == phase = "recorded" /\ runResult.op = "recordReceipts"

\* C3: whatever shouldMarkProcessed is, no thread with errors is passed to
\* markThreadProcessed, and when the run succeeds the receipts of such a thread (or
\* its placeholder), carrying its errors, are written to the ledger.
C3_ErrorThreadsNeverMarked ==
  Recorded =>
    \A info \in Range(threadInfos) :
      Len(info.errors) > 0 =>
        /\ info.thread \notin marked
        /\ runResult.result = "ok" =>
             /\ \A r \in Range(FlattenThread(info)) : Written(r)
             /\ FlattenThread(info)[1].errorMessage = Join(info.errors, NextError)

\* a marking run that wrote the receipt of a thread which also has an error
C3_Witness ==
  /\ Recorded
  /\ runResult.result = "ok"
  /\ runResult.shouldMarkProcessed
  /\ \E info \in Range(threadInfos) :
       /\ Len(info.errors) > 0
       /\ Len(info.receiptInfos) > 0
       /\ info.thread \notin marked
       /\ \A r \in Range(FlattenThread(info)) : Written(r)

\* the instant lies in the window [startDate, endDate] of the sheet, both ends included
InInclusiveWindow(date, sheet) ==
  StartOfDay(sheet.startDay) <= date /\ date <= EndOfDay(sheet.endDay)

InNoWindow(date) == \A s \in 1..Len(ledgerBefore) : ~InInclusiveWindow(date, ledgerBefore[s])

\* C4: when a receipt of the flattened list lies in no sheet's window, recordReceipts
\* fails and has written no row of any sheet.
C4_UnmappedReceiptFailsBeforeWrites ==
  Recorded /\ (\E r \in Range(getAllReceiptInfos(threadInfos)) : InNoWindow(r.date)) =>
    /\ runResult.result = "NotFound"
    /\ ledger = ledgerBefore
    /\ marked = {}

\* a run with one receipt inside a window and one receipt after the last window
C4_Witness ==
  /\ Recorded
  /\ \E r \in Range(getAllReceiptInfos(threadInfos)) : InNoWindow(r.date)
  /\ \E r \in Range(getAllReceiptInfos(threadInfos)) : ~InNoWindow(r.date)
  /\ runResult.result = "NotFound"
  /\ ledger = ledgerBefore

\* C5: a receipt is assigned to a sheet exactly when startDate <= date <= endDate: a
\* run whose receipts all lie in such a window, the last instant of the end day
\* included, does not report a receipt without a sheet, and each receipt is written
\* to a sheet whose inclusive window holds it.
C5_InclusiveWindow ==
  Recorded /\ (\A r \in Range(getAllReceiptInfos(threadInfos)) : ~InNoWindow(r.date)) =>
    /\ runResult.result # "NotFound"
    /\ runResult.result = "ok" =>
         \A r \in Range(getAllReceiptInfos(threadInfos)) :
           \E s \in 1..Len(ledger) : \E i \in 1..TransactionsMax :
             /\ ValuesEmpty(ledgerBefore[s].rows[i])
             /\ ledger[s].rows[i].date = Some(r.date)
             /\ InInclusiveWindow(r.date, ledger[s])


(***************************************************************************)
(* recordReceiptsOnSheet on one sheet                                      *)
(***************************************************************************)
\* Longest list of receipts placed by one call
MaxPlaced == 2

\* a row that holds a category and no date, name or cost
CategoryOnlyRow == [EmptyRow EXCEPT !.category = Some("Food")]

\* receipts as getAllReceiptInfos hands them over: a plain receipt, a receipt without
\* a name, and the placeholder of a thread that only has an error
PlacedReceipts ==
  { [date |-> StartOfDay(FirstDay), cost |-> Some(5), name |-> Some("Store"),
     errorMessage |-> <<>>, note |-> <<>>],
    [date |-> StartOfDay(FirstDay) + 1, cost |-> Some(0 - 5), name |-> None,
     errorMessage |-> <<>>, note |-> <<[msg |-> 12]>>],
    [date |-> StartOfDay(FirstDay) + 2, cost |-> None, name |-> None,
     errorMessage |-> <<[kind |-> "thread", msg |-> 0, cause |-> "getMessages"]>>, note |-> <<>>] }

InitPlace ==
  /\ threads = <<>>
  /\ threadInfos = <<>>
  /\ phase = "sheet"
  /\ \E rows \in [1..TransactionsMax -> {EmptyRow, OldRow, CategoryOnlyRow}] :
       ledger = << [startDay |-> FirstDay, endDay |-> FirstDay + PayPeriodDays - 1,
                    gap |-> FALSE, tabColor |-> None, rows |-> rows] >>
  /\ ledgerBefore = ledger
  /\ marked = {}
  /\ runResult = [op |-> "none"]
  /\ now = 0
  /\ templateSheet = TRUE
  /\ variablesCache = None

RecordReceiptsOnSheet(receiptInfos) ==
  /\ phase = "sheet"
  /\ runResult.op = "none"
  /\ LET recorded == recordReceiptsOnSheet(ledger[1].rows, receiptInfos)
     IN  /\ ledger' = [ledger EXCEPT ![1].rows = recorded.rows]
         /\ runResult' = [op |-> "recordReceiptsOnSheet", threw |-> recorded.threw,
                          receiptInfos |-> receiptInfos]
  /\ ledgerBefore' = ledger
  /\ variablesCache' = CacheAfterGetVariables
  /\ UNCHANGED <<threads, threadInfos, phase, marked, now, templateSheet>>

NextPlace ==
  \E n \in 1..MaxPlaced :
    \E receiptInfos \in [1..n -> PlacedReceipts] : RecordReceiptsOnSheet(receiptInfos)

SpecPlace == InitPlace /\ [][NextPlace]_vars

\* rows of the window that hold a date, a name or a cost
FilledRows(rows) == {i \in 1..Len(rows) : ~ValuesEmpty(rows[i])}

\* number of rows up to and including the last row that holds a value
RowsInUse(rows) ==
  IF FilledRows(rows) = {} THEN 0
  ELSE CHOOSE i \in FilledRows(rows) : \A j \in FilledRows(rows) : j <= i

\* C6: placing n receipts writes them in order into the n rows that follow the last
\* row holding a value (from the first row when there is none, empty rows between
\* filled rows are not used), leaves every row before them unchanged, and fails
\* without writing any row when they do not fit in the window.
C6_PlacedAfterLastFilledRow ==
  runResult.op = "recordReceiptsOnSheet" =>
    LET before == ledgerBefore[1].rows
        after == ledger[1].rows
        n == Len(runResult.receiptInfos)
        k == RowsInUse(before)
    IN  IF k + n > TransactionsMax
          THEN runResult.threw /\ after = before
          ELSE /\ ~runResult.threw
               /\ \A i \in 1..n :
                    /\ after[k + i].date = Some(runResult.receiptInfos[i].date)
                    /\ after[k + i].name = runResult.receiptInfos[i].name
                    /\ after[k + i].cost = runResult.receiptInfos[i].cost
               /\ \A i \in 1..TransactionsMax : i <= k \/ i > k + n => after[i] = before[i]

\* two receipts placed after the last filled row of a window with an empty row
\* between its filled rows
C6_Witness ==
  /\ runResult.op = "recordReceiptsOnSheet"
  /\ ~runResult.threw
  /\ Len(runResult.receiptInfos) = 2
  /\ runResult.receiptInfos[1] # runResult.receiptInfos[2]
  /\ \E i \in 1..TransactionsMax :
       i < RowsInUse(ledgerBefore[1].rows) /\ ValuesEmpty(ledgerBefore[1].rows[i])
  /\ ledger # ledgerBefore


(***************************************************************************)
(* splitTransaction.  In the sheets of the split engine a name is the      *)
(* sequence of its characters and a cost cell is [formula, head, v, subs]: *)
(* the number v (formula FALSE), or the formula "=" head "-R[n]C[0]" ...   *)
(* with one relative reference for each n of subs, the head being the      *)
(* number v ("num"), TaxMultiplier*(v) ("tax") or nothing ("blank").       *)
(***************************************************************************)
\* Variables.getVariables().TaxMultiplier
TaxMultiplier == 2

Number(v) == Some([formula |-> FALSE, head |-> "num", v |-> v, subs |-> <<>>])

\* `=${TaxMultiplier}*(0)`
TaxFormula == Some([formula |-> TRUE, head |-> "tax", v |-> 0, subs |-> <<>>])

\* the formula or else the value of each cell of the row at transactionIndex (from 0)
getTransactionRowInfo(rows, transactionIndex) == rows[transactionIndex + 1]

\* !cost: an empty cell and the number 0 are falsy, the text of a formula is not
FalsyCostCell(cost) == cost = None \/ (~Val(cost).formula /\ Val(cost).v = 0)

\* !date && !name && !cost && !category && !type
HasNoContent(info) ==
  /\ info.date = None
  /\ info.name = None
  /\ FalsyCostCell(info.cost)
  /\ info.category = None
  /\ info.type = None

\* Util.areDatesEqual: the times of two dates, else the texts of the two cells
areDatesEqual(date1, date2) ==
  IF IsSome(date1) /\ IsSome(date2) THEN Val(date1) = Val(date2)
  ELSE date1 = None /\ date2 = None

Includes(chars, c) == \E i \in 1..Len(chars) : chars[i] = c

\* name.split("|")[0]
BeforeBar(chars) ==
  LET bars == {i \in 1..Len(chars) : chars[i] = "|"}
  IN  IF bars = {} THEN chars
      ELSE SubSeq(chars, 1, (CHOOSE i \in bars : \A j \in bars : i <= j) - 1)

\* variant: the text before the bar is compared as it stands
KeepEnd(chars) == chars

RECURSIVE trimEnd(_)
trimEnd(chars) ==
  IF chars # <<>> /\ chars[Len(chars)] = " "
    THEN trimEnd(SubSeq(chars, 1, Len(chars) - 1))
    ELSE chars

\* name.substring(0, end)
substring(chars, end) == SubSeq(chars, 1, IF end < Len(chars) THEN end ELSE Len(chars))

Min(a, b) == IF a < b THEN a ELSE b

doTransactionRowInfosSeemEqual(transactionInfo1, transactionInfo2) ==
  IF ~areDatesEqual(transactionInfo1.date, transactionInfo2.date) THEN FALSE
  ELSE IF transactionInfo1.name = transactionInfo2.name THEN TRUE
  ELSE IF transactionInfo1.name = None \/ transactionInfo2.name = None THEN FALSE
  ELSE LET name1 == Val(transactionInfo1.name)
           name2 == Val(transactionInfo2.name)
           prefix1 == trimEnd(BeforeBar(name1))
           prefix2 == trimEnd(BeforeBar(name2))
           \* Math.floor(Math.min(length1 / 3, length2 / 3))
           shorterThirdLength == Min(Len(name1), Len(name2)) \div 3
       IN  \/ prefix1 = prefix2
           \/ substring(name1, shorterThirdLength) = substring(name2, shorterThirdLength)

RECURSIVE GroupLengthChained(_, _, _)
\* variant: each row is compared with the row before it
GroupLengthChained(rows, transactionIndex, length) ==
  IF /\ transactionIndex + length < TransactionsMax
     /\ \/ length = 0
        \/ doTransactionRowInfosSeemEqual(
             getTransactionRowInfo(rows, transactionIndex + length),
             getTransactionRowInfo(rows, transactionIndex + length - 1))
    THEN GroupLengthChained(rows, transactionIndex, length + 1)
    ELSE length

RECURSIVE GroupLength(_, _, _)
\* the while loop that collects transactionsInGroup, entered with a first row that
\* has content: the number of rows in the group
GroupLength(rows, transactionIndex, length) ==
  IF /\ transactionIndex + length < TransactionsMax
     /\ \/ length = 0
        \/ doTransactionRowInfosSeemEqual(
             getTransactionRowInfo(rows, transactionIndex + length),
             getTransactionRowInfo(rows, transactionIndex))
    THEN GroupLength(rows, transactionIndex, length + 1)
    ELSE length

\* `${name}${name?.includes("|") ? "" : " | "}`
NewFirstName(name) ==
  LET chars == IF IsSome(name) THEN Val(name) ELSE <<>>
  IN  Some(IF Includes(chars, "|") THEN chars ELSE chars \o <<" ", "|", " ">>)

\* variant: the reference reaches one row past the new trailing row
NewFirstCostNextRow(cost, length) ==
  IF cost = None
    THEN Some([formula |-> TRUE, head |-> "blank", v |-> 0, subs |-> <<length + 1>>])
    ELSE Some([Val(cost) EXCEPT !.formula = TRUE, !.subs = Append(@, length + 1)])

\* `${cost starts with "=" ? "" : "="}${cost}-R[${length}]C[0]`
NewFirstCost(cost, length) ==
  IF cost = None
    THEN Some([formula |-> TRUE, head |-> "blank", v |-> 0, subs |-> <<length>>])
    ELSE Some([Val(cost) EXCEPT !.formula = TRUE, !.subs = Append(@, length)])

\* variant of SplitChecks without the look at the row before the row to split
SplitChecksWithoutPrevious(rows, transactionIndex) ==
  LET first == getTransactionRowInfo(rows, transactionIndex)
      length == GroupLength(rows, transactionIndex, 0)
      afterGroup == transactionIndex + length
      nextOpen == getNextOpenTransactionRange(rows, 1)
      Result(threw, count) == [threw |-> threw, length |-> length, count |-> count]
  IN  IF HasNoContent(first) THEN [threw |-> "NoContent", length |-> 0, count |-> 0]
      ELSE IF afterGroup >= TransactionsMax THEN Result("NoRoom", 0)
      ELSE IF HasNoContent(getTransactionRowInfo(rows, afterGroup)) THEN Result("none", 0)
      ELSE IF nextOpen.threw THEN Result("NoOpenRow", 0)
      ELSE IF nextOpen.first - afterGroup < 1 THEN Result("BadRange", 0)
      ELSE Result("none", nextOpen.first - afterGroup)

\* every throw of splitTransaction, in the order of the code, all of them before the
\* first write (copyTo): [threw, length of the group, count of rows to move down]
SplitChecks(rows, transactionIndex) ==
  LET first == getTransactionRowInfo(rows, transactionIndex)
      length == GroupLength(rows, transactionIndex, 0)
      afterGroup == transactionIndex + length
      nextOpen == getNextOpenTransactionRange(rows, 1)
      Result(threw, count) == [threw |-> threw, length |-> length, count |-> count]
  IN  \* the transaction row has no content
      \* thrown with transactionsInGroup still empty
      IF HasNoContent(first) THEN [threw |-> "NoContent", length |-> 0, count |-> 0]
      \* no room on the sheet to split the group
      ELSE IF afterGroup >= TransactionsMax THEN Result("NoRoom", 0)
      \* seems to be in a transaction group already
      ELSE IF /\ transactionIndex > 0
              /\ doTransactionRowInfosSeemEqual(
                   getTransactionRowInfo(rows, transactionIndex - 1), first)
        THEN Result("InGroup", 0)
      \* the row after the group is empty: nothing to move
      ELSE IF HasNoContent(getTransactionRowInfo(rows, afterGroup)) THEN Result("none", 0)
      \* getNextOpenTransactionRange(sheet, 1) throws
      ELSE IF nextOpen.threw THEN Result("NoOpenRow", 0)
      \* offset(0, 0, numRows, 3) throws for numRows < 1
      ELSE IF nextOpen.first - afterGroup < 1 THEN Result("BadRange", 0)
      ELSE Result("none", nextOpen.first - afterGroup)

\* the rows once the first row is rewritten to subtract the new row
FirstRowWritten(rows, before, transactionIndex, length) ==
  [rows EXCEPT ![transactionIndex + 1] =
     [@ EXCEPT !.name = NewFirstName(before[transactionIndex + 1].name),
               !.cost = NewFirstCost(before[transactionIndex + 1].cost, length)]]

\* the writes of a split: copyTo one row down with notes and backgrounds, the vacated
\* row cleared, the new row written after the group, the first row rewritten
SplitWrites(rows, transactionIndex, length, count) ==
  LET afterGroup == transactionIndex + length + 1
      first == getTransactionRowInfo(rows, transactionIndex)
      moved == [i \in 1..Len(rows) |->
                  IF count > 0 /\ i > afterGroup /\ i <= afterGroup + count THEN rows[i - 1]
                  ELSE IF count > 0 /\ i = afterGroup THEN EmptyRow
                  ELSE rows[i]]
      added == [moved EXCEPT ![afterGroup] =
                  [@ EXCEPT !.date = first.date,
                            !.name = NewFirstName(first.name),
                            !.cost = TaxFormula,
                            !.category = first.category,
                            !.type = first.type]]
  IN  FirstRowWritten(added, rows, transactionIndex, length)

\* variant: the first row is rewritten before the rows below are looked at
splitTransactionFirstRowEarly(rows, transactionIndex) ==
  LET checks == SplitChecks(rows, transactionIndex)
  IN  IF checks.threw \in {"NoContent", "NoRoom", "InGroup"}
        THEN [threw |-> checks.threw, length |-> checks.length, rows |-> rows]
      ELSE IF checks.threw # "none"
        THEN [threw |-> checks.threw, length |-> checks.length,
              rows |-> FirstRowWritten(rows, rows, transactionIndex, checks.length)]
      ELSE [threw |-> "none", length |-> checks.length,
            rows |-> SplitWrites(rows, transactionIndex, checks.length, checks.count)]

\* splitTransaction(sheet, transactionIndex): [threw, length of the group, rows]
splitTransaction(rows, transactionIndex) ==
  LET checks == SplitChecks(rows, transactionIndex)
  IN  IF checks.threw # "none"
        THEN [threw |-> checks.threw, length |-> checks.length, rows |-> rows]
        ELSE [threw |-> "none", length |-> checks.length,
              rows |-> SplitWrites(rows, transactionIndex, checks.length, checks.count)]

RECURSIVE Evaluate(_, _)
RECURSIVE SumOfReferences(_, _, _)
\* the amount the cost cell of row i (from 1) shows; an empty cell counts as 0
Evaluate(rows, i) ==
  IF i > Len(rows) \/ rows[i].cost = None THEN 0
  ELSE LET cost == Val(rows[i].cost)
           head == IF cost.head = "tax" THEN TaxMultiplier * cost.v ELSE cost.v
       IN  head - SumOfReferences(rows, i, cost.subs)

\* the sum of the cells R[n]C[0] for the n of subs
SumOfReferences(rows, i, subs) ==
  IF subs = <<>> THEN 0
  ELSE Evaluate(rows, i + Head(subs)) + SumOfReferences(rows, i, Tail(subs))

(***************************************************************************)
(* The split engine alone: one sheet, the checkbox of any row ticked       *)
(***************************************************************************)
SplitRow(date, name, cost) ==
  [EmptyRow EXCEPT !.date = Some(date), !.name = Some(name), !.cost = Number(cost)]

\* rows of a split sheet: empty, three names on one day of which the first two share
\* their first third, a name shorter than three characters, and a row that only has
\* a category
SplitRowKinds ==
  { EmptyRow,
    SplitRow(StartOfDay(FirstDay), <<"a", "b", "c">>, 5),
    [SplitRow(StartOfDay(FirstDay), <<"a", "b", "d">>, 3)
       EXCEPT !.note = Some([errors |-> <<>>, notes |-> <<[msg |-> 12]>>]),
              !.nameBg = Some("#E8A9CA"), !.category = Some("Food")],
    SplitRow(StartOfDay(FirstDay), <<"x", "y", "z">>, 7),
    SplitRow(StartOfDay(FirstDay), <<"a", "b">>, 4),
    [EmptyRow EXCEPT !.category = Some("Food")] }

InitSplit ==
  /\ threads = <<>>
  /\ threadInfos = <<>>
  /\ phase = "split"
  /\ \E rows \in [1..TransactionsMax -> SplitRowKinds] :
       ledger = << [startDay |-> FirstDay, endDay |-> FirstDay + PayPeriodDays - 1,
                    gap |-> FALSE, tabColor |-> None, rows |-> rows] >>
  /\ ledgerBefore = ledger
  /\ marked = {}
  /\ runResult = [op |-> "none"]
  /\ now = 0
  /\ templateSheet = TRUE
  /\ variablesCache = None

\* onEdit of the split checkbox of the row at transactionIndex
SplitTransaction(transactionIndex) ==
  /\ phase = "split"
  /\ LET split == splitTransaction(ledger[1].rows, transactionIndex)
     IN  /\ ledger' = [ledger EXCEPT ![1].rows = split.rows]
         /\ runResult' = [op |-> "splitTransaction", threw |-> split.threw,
                          transactionIndex |-> transactionIndex, length |-> split.length]
  /\ ledgerBefore' = ledger
  /\ variablesCache' = CacheAfterGetVariables
  /\ UNCHANGED <<threads, threadInfos, phase, marked, now, templateSheet>>

NextSplit == \E transactionIndex \in 0..(TransactionsMax - 1) : SplitTransaction(transactionIndex)

SpecSplit == InitSplit /\ [][NextSplit]_vars

(***************************************************************************)
(* Properties of the split engine                                          *)
(***************************************************************************)
SplitDone == runResult.op = "splitTransaction"

\* the row before the row to split seems equal to the row to split
PreviousSeemsEqual(rows, transactionIndex) ==
  /\ transactionIndex > 0
  /\ doTransactionRowInfosSeemEqual(getTransactionRowInfo(rows, transactionIndex - 1),
                                    getTransactionRowInfo(rows, transactionIndex))

\* C7: whenever splitTransaction fails (row without content, row already in a group,
\* no room on the sheet, no open row to move the following rows into), every cell of
\* the sheet (values, metadata, notes, backgrounds) is as it was before the call.
C7_FailedSplitChangesNothing ==
  (SplitDone /\ runResult.threw # "none") => ledger = ledgerBefore

\* a split fails for want of an open row on a sheet an earlier split has written to
C7_Witness ==
  /\ SplitDone
  /\ runResult.threw = "NoOpenRow"
  /\ \E i \in 1..TransactionsMax : ledger[1].rows[i].cost = TaxFormula

\* C8 (as the code has it): a split at transactionIndex > 0 whose previous row seems
\* equal to the row to split is always rejected and writes nothing; the error is the
\* 'already in a transaction group' one exactly when the row to split has content and
\* its group ends before the last row of the window, since the 'no content' and 'no
\* room' checks come first.  So a split asked on the new trailing row of a group of
\* one row is always rejected.
C8_SplitAfterEqualRowRejected ==
  SplitDone =>
    LET before == ledgerBefore[1].rows
        index == runResult.transactionIndex
    IN  /\ PreviousSeemsEqual(before, index) =>
             /\ runResult.threw \in {"NoContent", "NoRoom", "InGroup"}
             /\ ledger = ledgerBefore
             /\ runResult.threw = "InGroup" <=>
                  /\ ~HasNoContent(getTransactionRowInfo(before, index))
                  /\ index + GroupLength(before, index, 0) < TransactionsMax
        /\ (runResult.threw = "none" /\ runResult.length = 1) =>
             splitTransaction(ledger[1].rows, index + 1).threw \in {"NoRoom", "InGroup"}

\* the split of the trailing row an earlier split made is rejected as in a group
C8_Witness ==
  /\ SplitDone
  /\ runResult.threw = "InGroup"
  /\ ledger[1].rows[runResult.transactionIndex + 1].cost = TaxFormula

\* C8 as stated: the error is always the 'already in a transaction group' one, and
\* every row but the first of the group a split leaves is rejected.
C8_RejectedAsInGroup ==
  SplitDone =>
    /\ PreviousSeemsEqual(ledgerBefore[1].rows, runResult.transactionIndex) =>
         runResult.threw = "InGroup"
    /\ runResult.threw = "none" =>
         \A index \in (runResult.transactionIndex + 1)..(runResult.transactionIndex +
                                                          runResult.length) :
           splitTransaction(ledger[1].rows, index).threw # "none"

\* C9: after a successful split of a group of n rows the new trailing row holds
\* TaxMultiplier*(0) and the first row's formula is its old cost with one more
\* subtraction, of the cell n rows below it, which is the new trailing row; for a
\* numeric cost C and n = 1 the first row is C minus the trailing row and the two
\* rows' amounts sum to C.
C9_FirstRowSubtractsNewRow ==
  (SplitDone /\ runResult.threw = "none") =>
    LET before == ledgerBefore[1].rows
        after == ledger[1].rows
        i == runResult.transactionIndex + 1
        n == runResult.length
        old == before[i].cost
        new == Val(after[i].cost)
    IN  /\ after[i + n].cost = TaxFormula
        /\ Evaluate(after, i + n) = TaxMultiplier * 0
        /\ after[i].cost # None
        /\ new.formula
        /\ new.subs = (IF old = None THEN <<>> ELSE Val(old).subs) \o <<n>>
        /\ old # None => new.head = Val(old).head /\ new.v = Val(old).v
        /\ (n = 1 /\ old # None /\ ~Val(old).formula) =>
             /\ new = [formula |-> TRUE, head |-> "num", v |-> Val(old).v, subs |-> <<1>>]
             /\ Evaluate(after, i) = Val(old).v - Evaluate(after, i + 1)
             /\ Evaluate(after, i) + Evaluate(after, i + 1) = Val(old).v

\* a row with a numeric cost, followed by a row of another transaction, is split
C9_Witness ==
  /\ SplitDone
  /\ runResult.threw = "none"
  /\ runResult.length = 1
  /\ LET old == ledgerBefore[1].rows[runResult.transactionIndex + 1].cost
     IN  old # None /\ ~Val(old).formula /\ Val(old).v # 0
  /\ ~HasNoContent(ledgerBefore[1].rows[runResult.transactionIndex + 2])


(***************************************************************************)
(* addTransactionSheet and addTransactionSheets                            *)
(***************************************************************************)
\* transactionSheetInfos.length >= 14 and transactionSheetInfos[13]
GapPeriods == 14

compareTransactionSheetInfosByStartDateDescending(a, b) ==
  IF a.startDate > b.startDate THEN 0 - 1
  ELSE IF a.startDate = b.startDate THEN 0
  ELSE 1

RECURSIVE InsertByStartDate(_, _, _)
\* index x placed after every index whose sheet does not compare greater than its own
InsertByStartDate(sorted, x, infos) ==
  IF sorted = <<>> THEN <<x>>
  ELSE IF compareTransactionSheetInfosByStartDateDescending(infos[Head(sorted)], infos[x]) > 0
    THEN <<x>> \o sorted
    ELSE <<Head(sorted)>> \o InsertByStartDate(Tail(sorted), x, infos)

RECURSIVE SortByStartDate(_, _, _)
\* getTransactionSheetInfos().sort(...): the positions of the sheets, latest start first
SortByStartDate(sorted, next, infos) ==
  IF next > Len(infos) THEN sorted
  ELSE SortByStartDate(InsertByStartDate(sorted, next, infos), next + 1, infos)

\* variant: a new sheet is wanted as soon as the latest sheet has started
doesNeedNewTransactionSheetOnceStarted(nowInstant, latest) == nowInstant > latest.startDate

\* new Date() > latestTransactionSheetInfo.endDate
doesNeedNewTransactionSheet(nowInstant, latest) == nowInstant > latest.endDate

\* variant: the new sheet starts at the end of the latest sheet
NewStartDateAtEnd(latest) == latest.endDate

\* twelve hours after the end of the latest sheet
NewStartDate(latest) == latest.endDate + TicksPerDay \div 2

\* variant: a whole pay period and twelve hours after the end of the latest sheet
NewEndDateWholePeriod(latest) ==
  latest.endDate + PayPeriodDays * TicksPerDay + TicksPerDay \div 2

\* PayPeriodDays - 1 days (setDate) and twelve hours (setHours) after it
NewEndDate(latest) ==
  latest.endDate + (PayPeriodDays - 1) * TicksPerDay + TicksPerDay \div 2

\* variant: the sheet looked at is the oldest one
IsGapPeriodByOldest(infos, order) ==
  Len(infos) >= GapPeriods /\ infos[order[Len(infos)]].gap

\* transactionSheetInfos.length >= 14 && the name of transactionSheetInfos[13] has "(Gap)"
IsGapPeriod(infos, order) ==
  Len(infos) >= GapPeriods /\ infos[order[GapPeriods]].gap

\* one call of addTransactionSheet: [result, sheets], the result "true", "false" or
\* "threw"
addTransactionSheet(sheets, nowInstant, template) ==
  LET infos == getTransactionSheetInfos(sheets)
      order == SortByStartDate(<<>>, 1, infos)
      latest == infos[order[1]]
      newStartDate == NewStartDate(latest)
      newEndDate == NewEndDate(latest)
      isGapPeriod == IsGapPeriod(infos, order)
      \* the month, day and year of the two dates make the name that is read back
      newSheet == [startDay |-> DayOf(newStartDate), endDay |-> DayOf(newEndDate),
                   gap |-> isGapPeriod,
                   tabColor |-> IF isGapPeriod THEN Some("#E8A9CA") ELSE None,
                   rows |-> Window(0)]
      nameTaken == \E i \in 1..Len(sheets) :
                     /\ sheets[i].startDay = newSheet.startDay
                     /\ sheets[i].endDay = newSheet.endDay
                     /\ sheets[i].gap = newSheet.gap
  IN  IF Len(infos) < 1 THEN [result |-> "threw", sheets |-> sheets]
      ELSE IF ~doesNeedNewTransactionSheet(nowInstant, latest)
        THEN [result |-> "false", sheets |-> sheets]
      ELSE IF ~template \/ nameTaken THEN [result |-> "threw", sheets |-> sheets]
      ELSE [result |-> "true",
            \* inserted before the latest sheet
            sheets |-> SubSeq(sheets, 1, order[1] - 1) \o <<newSheet>>
                       \o SubSeq(sheets, order[1], Len(sheets))]

\* sheets of the spreadsheet when the script starts, at most MaxSheets of them
MaxSheets == 2
\* the last day the clock can show
MaxNowDay == 7

\* n sheets of PayPeriodDays days each, one after the other from FirstDay on
ConsecutiveSheets(n, newestFirst) ==
  LET Sheet(k) == [startDay |-> FirstDay + (k - 1) * PayPeriodDays,
                   endDay |-> FirstDay + k * PayPeriodDays - 1,
                   gap |-> FALSE, tabColor |-> None, rows |-> Window(0)]
  IN  [i \in 1..n |-> IF newestFirst THEN Sheet(n + 1 - i) ELSE Sheet(i)]

NotCalled == [op |-> "none", result |-> "none", numSheetsAdded |-> 0]

InitSheets ==
  /\ threads = <<>>
  /\ threadInfos = <<>>
  /\ phase = "sheets"
  /\ \E n \in 0..MaxSheets, newestFirst \in BOOLEAN : ledger = ConsecutiveSheets(n, newestFirst)
  /\ ledgerBefore = ledger
  /\ marked = {}
  /\ runResult = NotCalled
  /\ now \in 0..EndOfDay(MaxNowDay)
  /\ templateSheet \in BOOLEAN
  /\ variablesCache = None

\* addTransactionSheets is inside its while loop
Looping == runResult.op = "addTransactionSheets" /\ runResult.result = "running"

\* one call of addTransactionSheet
AddTransactionSheet ==
  /\ phase = "sheets"
  /\ ~Looping
  /\ LET call == addTransactionSheet(ledger, now, templateSheet)
     IN  /\ ledger' = call.sheets
         /\ runResult' = [op |-> "addTransactionSheet", result |-> call.result,
                          numSheetsAdded |-> 0]
  /\ ledgerBefore' = ledger
  \* PayPeriodDays and TemplateName are read once a new sheet is needed
  /\ variablesCache' =
       IF Len(ledger) >= 1 /\ addTransactionSheet(ledger, now, templateSheet).result # "false"
         THEN CacheAfterGetVariables
         ELSE variablesCache
  /\ UNCHANGED <<threads, threadInfos, phase, marked, now, templateSheet>>

\* addTransactionSheets is called: numSheetsAdded = 0
AddTransactionSheets ==
  /\ phase = "sheets"
  /\ ~Looping
  /\ runResult' = [op |-> "addTransactionSheets", result |-> "running", numSheetsAdded |-> 0]
  /\ ledgerBefore' = ledger
  /\ UNCHANGED <<threads, threadInfos, phase, ledger, marked, now, templateSheet,
                 variablesCache>>

\* one test of while (addTransactionSheet()): numSheetsAdded += 1, or the return of
\* numSheetsAdded, or the throw passed on
AddTransactionSheetsLoop ==
  /\ phase = "sheets"
  /\ Looping
  /\ LET call == addTransactionSheet(ledger, now, templateSheet)
     IN  /\ ledger' = call.sheets
         /\ runResult' =
              IF call.result = "true"
                THEN [runResult EXCEPT !.numSheetsAdded = @ + 1]
              ELSE IF call.result = "false" THEN [runResult EXCEPT !.result = "returned"]
              ELSE [runResult EXCEPT !.result = "threw"]
  \* PayPeriodDays and TemplateName are read once a new sheet is needed
  /\ variablesCache' =
       IF Len(ledger) >= 1 /\ addTransactionSheet(ledger, now, templateSheet).result # "false"
         THEN CacheAfterGetVariables
         ELSE variablesCache
  /\ UNCHANGED <<threads, threadInfos, phase, ledgerBefore, marked, now, templateSheet>>

NextSheets == AddTransactionSheet \/ AddTransactionSheets \/ AddTransactionSheetsLoop

\* a script that has entered the loop goes on running it
SpecSheets == InitSheets /\ [][NextSheets]_vars /\ WF_vars(AddTransactionSheetsLoop)

(***************************************************************************)
(* Properties of addTransactionSheet(s)                                    *)
(***************************************************************************)
\* the end date of the sheet with the latest start date
LatestEndDate(sheets) ==
  LET infos == getTransactionSheetInfos(sheets)
  IN  infos[SortByStartDate(<<>>, 1, infos)[1]].endDate

\* `longer` is `shorter` with one more sheet
OneSheetCreated(shorter, longer) ==
  /\ Len(longer) = Len(shorter) + 1
  /\ \E p \in 1..Len(longer) :
       shorter = SubSeq(longer, 1, p - 1) \o SubSeq(longer, p + 1, Len(longer))

CallsRight ==
  (runResult.op = "addTransactionSheet" /\ Len(ledgerBefore) >= 1 /\ templateSheet) =>
    IF now > LatestEndDate(ledgerBefore)
      THEN runResult.result = "true" /\ OneSheetCreated(ledgerBefore, ledger)
      ELSE runResult.result = "false" /\ ledger = ledgerBefore

CountRight ==
  (runResult.op = "addTransactionSheets" /\ runResult.result = "returned") =>
    /\ runResult.numSheetsAdded = Len(ledger) - Len(ledgerBefore)
    /\ ~(now > LatestEndDate(ledger))

\* C10 (as the code has it): with the clock fixed, at least one transaction sheet,
\* PayPeriodDays >= 1 and the template sheet present, a call of addTransactionSheet
\* returns true and creates exactly one sheet while now is past the end date of the
\* latest sheet, and returns false and creates nothing otherwise; addTransactionSheets
\* then returns, its result is the number of sheets created, and on return now is not
\* past the end date of the latest sheet.
C10_CatchesUpAndStops ==
  /\ [](CallsRight /\ CountRight)
  /\ (Looping /\ Len(ledger) >= 1 /\ templateSheet)
       ~> (runResult.op = "addTransactionSheets" /\ runResult.result = "returned")

\* addTransactionSheets returned after creating more than one sheet
C10_Witness ==
  /\ runResult.op = "addTransactionSheets"
  /\ runResult.result = "returned"
  /\ runResult.numSheetsAdded >= 2
  /\ Len(ledger) = Len(ledgerBefore) + runResult.numSheetsAdded

\* C10 as stated, with no word of the template sheet: past the end date of the latest
\* sheet, every call returns true.
C10_TrueWheneverPastLatestEnd ==
  (/\ runResult.op = "addTransactionSheet"
   /\ Len(ledgerBefore) >= 1
   /\ now > LatestEndDate(ledgerBefore)) =>
    runResult.result = "true" /\ OneSheetCreated(ledgerBefore, ledger)

\* the sheet with the latest start date
LatestSheet(sheets) ==
  sheets[SortByStartDate(<<>>, 1, getTransactionSheetInfos(sheets))[1]]

\* C11: the sheet addTransactionSheet creates starts on the day right after the end
\* day of the sheet with the latest start date and ends on start day +
\* PayPeriodDays - 1, so the window read back from its name spans exactly
\* PayPeriodDays days.
C11_NewWindowFollowsLatest ==
  (runResult.op = "addTransactionSheet" /\ runResult.result = "true") =>
    \E p \in 1..Len(ledger) :
      LET created == ledger[p]
          info == TransactionSheetInfo(created)
      IN  /\ ledgerBefore = SubSeq(ledger, 1, p - 1) \o SubSeq(ledger, p + 1, Len(ledger))
          /\ created.startDay = LatestSheet(ledgerBefore).endDay + 1
          /\ created.endDay = created.startDay + PayPeriodDays - 1
          /\ info.startDate = StartOfDay(created.startDay)
          /\ info.endDate + 1 - info.startDate = PayPeriodDays * TicksPerDay

\* a sheet is created after two sheets listed oldest first
C11_Witness ==
  /\ runResult.op = "addTransactionSheet"
  /\ runResult.result = "true"
  /\ Len(ledgerBefore) = 2
  /\ ledgerBefore[1].startDay < ledgerBefore[2].startDay
  /\ Len(ledger) = 3


(***************************************************************************)
(* Properties of getAllReceiptInfos                                        *)
(***************************************************************************)
\* where a receipt stands in the thread-by-thread, message-by-message list
PositionIn(flat, receiptInfo) == CHOOSE k \in 1..Len(flat) : flat[k] = receiptInfo

MaxFlattenMsgs == 4

\* a receipt on each of two days, a message that is no receipt and a message from an
\* unknown address, on later days
FlattenShapes ==
  {ChaseReceiptShape(1), ChaseReceiptShape(2), ChaseOtherShape(3), UnknownShape(4)}

InitFlatten ==
  /\ \E thread \in {[enumerable |-> TRUE, shapes |-> shapes] :
                      shapes \in SeqsUpTo(FlattenShapes, MaxFlattenMsgs)}
                   \cup {[enumerable |-> FALSE, shapes |-> <<>>]} :
       threads = Batch(<<thread>>)
  /\ threadInfos = <<>>
  /\ phase = "new"
  /\ ledger = <<>>
  /\ ledgerBefore = <<>>
  /\ marked = {}
  /\ runResult = [op |-> "none"]
  /\ now = 0
  /\ templateSheet = TRUE
  /\ variablesCache = None

NextFlatten == Construct

SpecFlatten == InitFlatten /\ [][NextFlatten]_vars

\* C13: flattening a retained thread gives its receipts when it has any, else exactly
\* one placeholder dated at the thread's last message with no cost and no name; the
\* errors joined with the NEXT ERROR banner and the notes joined with the NEXT NOTE
\* banner are on the first entry only, every other entry has neither.
C13_NotesAndErrorsOnFirstEntry ==
  phase = "built" =>
    \A t \in 1..Len(threadInfos) :
      LET info == threadInfos[t]
          entries == FlattenThread(info)
          thread == CHOOSE th \in Range(threads) : th.id = info.thread
      IN  /\ IF Len(info.receiptInfos) > 0
               THEN /\ Len(entries) = Len(info.receiptInfos)
                    /\ \A k \in 1..Len(entries) :
                         /\ entries[k].msg = info.receiptInfos[k].msg
                         /\ entries[k].date = info.receiptInfos[k].date
                         /\ entries[k].cost = info.receiptInfos[k].cost
                         /\ entries[k].name = info.receiptInfos[k].name
               ELSE /\ Len(entries) = 1
                    /\ entries[1].date = thread.lastMessageDate
                    /\ entries[1].cost = None
                    /\ entries[1].name = None
          /\ entries[1].errorMessage = Join(info.errors, NextError)
          /\ Len(entries[1].errorMessage) =
               IF info.errors = <<>> THEN 0 ELSE 2 * Len(info.errors) - 1
          /\ entries[1].note = Join(info.notes, NextNote)
          /\ Len(entries[1].note) = IF info.notes = <<>> THEN 0 ELSE 2 * Len(info.notes) - 1
          /\ \A k \in 2..Len(entries) :
               entries[k].errorMessage = <<>> /\ entries[k].note = <<>>
          /\ \A k \in 1..Len(entries) : entries[k] \in Range(getAllReceiptInfos(threadInfos))

\* a thread with two receipts, then a note and an error
C13_Witness ==
  /\ phase = "built"
  /\ Len(threadInfos) = 1
  /\ Len(threadInfos[1].receiptInfos) = 2
  /\ Len(threadInfos[1].notes) = 1
  /\ Len(threadInfos[1].errors) = 1


(***************************************************************************)
(* One thread built and recorded on empty sheets                           *)
(***************************************************************************)
\* messages dated inside the window of the older sheet: a receipt, a message that
\* matches no pattern, a $0 credit without a merchant, an unknown sender
MaxThreadRunMsgs == 3

ThreadRunShapes ==
  LET date == StartOfDay(FirstDay) + 1
  IN  {ChaseReceiptShape(date), ChaseOtherShape(date), ChaseZeroRefundShape(date),
       UnknownShape(date)}

InitThreadRun ==
  /\ \E thread \in {[enumerable |-> TRUE, shapes |-> shapes] :
                      shapes \in SeqsUpTo(ThreadRunShapes, MaxThreadRunMsgs)}
                   \cup {[enumerable |-> FALSE, shapes |-> <<>>]} :
       threads = Batch(<<thread>>)
  /\ threadInfos = <<>>
  /\ phase = "new"
  /\ ledger = TwoSheets(0, 0)
  /\ ledgerBefore = ledger
  /\ marked = {}
  /\ runResult = [op |-> "none"]
  /\ now = 0
  /\ templateSheet = TRUE
  /\ variablesCache = None

NextThreadRun ==
  \/ Construct
  \/ \E shouldMarkProcessed \in BOOLEAN : RecordReceipts(shouldMarkProcessed)

SpecThreadRun == InitThreadRun /\ [][NextThreadRun]_vars

\* the message matches none of the patterns of its provider
NonMatching(message) ==
  /\ message.subject.kind = "Other"
  /\ message.body = NoBody
  /\ message.from = Some(chaseReceiptEmailAddress)

\* the list ProcessThread puts the message in
ListOf(info, message) ==
  IF \E k \in 1..Len(info.receiptInfos) : info.receiptInfos[k].msg = message.id
    THEN "receipt"
  ELSE IF \E k \in 1..Len(info.notes) : info.notes[k].msg = message.id THEN "note"
  ELSE "error"

\* the thread of Example 4: a genuine receipt and a non-matching message
ReceiptAndNonMatching(thread) ==
  /\ thread.enumerable
  /\ Len(thread.messages) = 2
  /\ \E i, j \in 1..2 :
       /\ i # j
       /\ NonMatching(thread.messages[i])
       /\ thread.messages[j].subject.kind = "ChaseReceipt"

ExampleRight ==
  \A t \in 1..Len(threads) :
    ReceiptAndNonMatching(threads[t]) =>
      /\ \E info \in Range(threadInfos) :
           /\ info.thread = threads[t].id
           /\ Len(info.receiptInfos) = 1
           /\ Len(info.notes) = 1
           /\ Len(info.errors) = 0
      /\ phase = "recorded" =>
           /\ runResult.result = "ok"
           /\ threads[t].id \in marked <=> runResult.shouldMarkProcessed

KnownProviders ==
  {chaseReceiptEmailAddress, paypalReceiptEmailAddress, venmoReceiptEmailAddress}

\* the sender is neither a known provider nor the forwarding relay
UnknownSender(message) ==
  /\ IsSome(message.from)
  /\ Val(message.from) \notin KnownProviders \cup {ForwardEmailAddress}

UnknownProviderError(message) ==
  [kind |-> "message", msg |-> message.id, cause |-> "No function to handle receipt message"]

\* C15: a message whose sender is neither a known provider nor the relay leaves the
\* unknown-provider error in its thread's errors, no receipt and no note; the thread
\* is retained and is not marked processed by recordReceipts.
C15_UnknownSenderIsError ==
  phase \in {"built", "recorded"} =>
    \A t \in 1..Len(threads) :
      threads[t].enumerable =>
        \A i \in 1..Len(threads[t].messages) :
          UnknownSender(threads[t].messages[i]) =>
            /\ Cardinality(KeptFor(t)) = 1
            /\ \A info \in KeptFor(t) :
                 /\ \E k \in 1..Len(info.errors) :
                      info.errors[k] = UnknownProviderError(threads[t].messages[i])
                 /\ ListOf(info, threads[t].messages[i]) = "error"
                 /\ Entries(info, threads[t].messages[i]) = 1
            /\ t \notin marked

\* a marking run that succeeded on a thread holding a receipt and a message of an
\* unknown sender
C15_Witness ==
  /\ phase = "recorded"
  /\ runResult.result = "ok"
  /\ runResult.shouldMarkProcessed
  /\ \E t \in 1..Len(threads) :
       /\ \E i \in 1..Len(threads[t].messages) : UnknownSender(threads[t].messages[i])
       /\ \E info \in KeptFor(t) : Len(info.receiptInfos) > 0
       /\ t \notin marked


(***************************************************************************)
(* The classifier on its own: messages of every provider, direct and       *)
(* forwarded, classified one at a time and by the constructor.             *)
(***************************************************************************)
MaxClassifyMsgs == 2
MaxClassifications == 2

Relay == VariablesSheet.ForwardEmailAddress
Captured(cost, name, details) == Some([cost |-> cost, name |-> name, details |-> details])

\* "You have a $7 credit pending on your credit card" with a Merchant line
ChaseRefundShape(date) ==
  [from |-> Some(chaseReceiptEmailAddress), to |-> Some("me@example.com"),
   subject |-> [NoPart EXCEPT !.kind = "ChaseRefund", !.cost = Some(7)],
   body |-> [NoBody EXCEPT !.merchant = Captured(None, Some("Store"), None)],
   date |-> date]
\* "You sent a $3 USD payment", direct or forwarded by the relay
PaypalSentShape(date, forwarded) ==
  [from |-> Some(IF forwarded THEN Relay ELSE paypalReceiptEmailAddress),
   to |-> Some(IF forwarded THEN "me@example.com" ELSE Relay),
   subject |-> [NoPart EXCEPT !.kind = "PaypalSent", !.fwd = forwarded, !.cost = Some(3)],
   body |-> [NoBody EXCEPT !.sent = Captured(None, Some("Ann"), Some("rent")),
                           !.fwdFrom = IF forwarded THEN Some(paypalReceiptEmailAddress)
                                       ELSE None],
   date |-> date]
\* "Money is waiting for you", the amount in the body
PaypalReceivedShape(date, forwarded) ==
  [from |-> Some(IF forwarded THEN Relay ELSE paypalReceiptEmailAddress),
   to |-> Some("me@example.com"),
   subject |-> [NoPart EXCEPT !.kind = "PaypalReceived", !.fwd = forwarded],
   body |-> [NoBody EXCEPT !.received = Captured(Some(4), Some("Bob"), Some("lunch")),
                           !.fwdFrom = IF forwarded THEN Some(paypalReceiptEmailAddress)
                                       ELSE None],
   date |-> date]
\* "You paid Cy $2", "You completed Cy's $6 charge request", "Cy paid you $8"
VenmoShape(date, kind, cost, forwarded) ==
  [from |-> Some(IF forwarded THEN Relay ELSE venmoReceiptEmailAddress),
   to |-> Some("me@example.com"),
   subject |-> [NoPart EXCEPT !.kind = kind, !.fwd = forwarded, !.cost = Some(cost),
                                !.name = Some("Cy")],
   body |-> [NoBody EXCEPT !.paid = IF kind = "VenmoCharge" THEN None
                                    ELSE Captured(None, None, Some("pizza")),
                           !.charged = IF kind = "VenmoCharge"
                                         THEN Captured(None, None, Some("pizza"))
                                         ELSE None,
                           !.fwdFrom = IF forwarded THEN Some(venmoReceiptEmailAddress)
                                       ELSE None],
   date |-> date]
\* a message the relay forwarded from an address that is no provider's
ForwardedUnknownShape(date) ==
  [from |-> Some(Relay), to |-> Some("me@example.com"),
   subject |-> [NoPart EXCEPT !.fwd = TRUE],
   body |-> [NoBody EXCEPT !.fwdFrom = Some("other@example.com")], date |-> date]
\* "Fwd: Your $5 transaction with Store", forwarded by the relay from the credit provider
ForwardedChaseReceiptShape(date) ==
  [from |-> Some(Relay), to |-> Some("me@example.com"),
   subject |-> [NoPart EXCEPT !.kind = "ChaseReceipt", !.fwd = TRUE, !.cost = Some(5),
                                !.name = Some("Store")],
   body |-> [NoBody EXCEPT !.fwdFrom = Some(chaseReceiptEmailAddress)], date |-> date]
\* a message of the relay without the forwarding banner
ForwardedNoBannerShape(date) ==
  [from |-> Some(Relay), to |-> Some("me@example.com"),
   subject |-> NoPart, body |-> NoBody, date |-> date]
\* a message whose From header holds no address
NoSenderShape(date) ==
  [from |-> None, to |-> Some("me@example.com"), subject |-> NoPart, body |-> NoBody,
   date |-> date]

ClassifyShapes ==
  {ChaseReceiptShape(1), ChaseRefundShape(1), ChaseZeroRefundShape(1), ChaseOtherShape(1),
   UnknownShape(1), ForwardedUnknownShape(1), ForwardedNoBannerShape(1), NoSenderShape(1),
   ForwardedChaseReceiptShape(1)}
    \cup {PaypalSentShape(1, f) : f \in BOOLEAN}
    \cup {PaypalReceivedShape(1, f) : f \in BOOLEAN}
    \cup {VenmoShape(1, "VenmoPaid", 2, f) : f \in BOOLEAN}
    \cup {VenmoShape(1, "VenmoCharge", 6, f) : f \in BOOLEAN}
    \cup {VenmoShape(1, "VenmoReceived", 8, f) : f \in BOOLEAN}

NotClassified == [op |-> "getReceiptInfo", results |-> <<>>]

InitClassify ==
  /\ \E shapes \in SeqsUpTo(ClassifyShapes, MaxClassifyMsgs) :
       /\ shapes # <<>>
       /\ threads = Batch(<<[enumerable |-> TRUE, shapes |-> shapes]>>)
  /\ threadInfos = <<>>
  /\ phase = "new"
  /\ ledger = <<>>
  /\ ledgerBefore = <<>>
  /\ marked = {}
  /\ runResult = NotClassified
  /\ now = 0
  /\ templateSheet = TRUE
  /\ variablesCache = None

\* the body of the per-message try of the constructor, up to the returned receipt
GetReceiptInfo(i) ==
  /\ Len(runResult.results) < MaxClassifications
  /\ i \in 1..Len(threads[1].messages)
  /\ runResult' = [runResult EXCEPT
                     !.results = Append(@, [index |-> i,
                                            cached |-> IsSome(variablesCache),
                                            got |-> getReceiptInfo(threads[1].messages[i])])]
  /\ variablesCache' = IF IsSome(threads[1].messages[i].from)
                         THEN CacheAfterGetVariables
                         ELSE variablesCache
  /\ UNCHANGED <<threads, threadInfos, phase, ledger, ledgerBefore, marked, now,
                 templateSheet>>

NextClassify ==
  \/ Construct
  \/ \E i \in 1..MaxClassifyMsgs : GetReceiptInfo(i)

SpecClassify == InitClassify /\ [][NextClassify]_vars

(***************************************************************************)
(* Properties of the classifier                                            *)
(***************************************************************************)
\* the relay forwarded the message from an address that is no provider's
ForwardedFromUnknown(message) ==
  /\ message.from = Some(Relay)
  /\ IsSome(message.body.fwdFrom)
  /\ Val(message.body.fwdFrom) \notin KnownProviders

\* C16: a message of the relay whose resolved origin is not a known provider fails
\* to classify and is recorded as an error of its thread; it is not classified as a
\* receipt without fields that becomes a note.
C16_UnknownForwardIsError ==
  /\ \A k \in 1..Len(runResult.results) :
       ForwardedFromUnknown(threads[1].messages[runResult.results[k].index]) =>
         runResult.results[k].got.threw
  /\ phase = "built" =>
       \A i \in 1..Len(threads[1].messages) :
         ForwardedFromUnknown(threads[1].messages[i]) =>
           /\ ListOf(ProcessThread(threads[1]), threads[1].messages[i]) = "error"
           /\ \E info \in KeptFor(1) :
                \E k \in 1..Len(info.errors) : info.errors[k].msg = threads[1].messages[i].id

\* the patterns of money going out and of money coming in
OutgoingKinds == {"ChaseReceipt", "PaypalSent", "VenmoPaid", "VenmoCharge"}
IncomingKinds == {"ChaseRefund", "PaypalReceived", "VenmoReceived"}

\* the amount the matched pattern captures: from the body for "Money is waiting for
\* you", from the subject otherwise
Magnitude(message) ==
  IF message.subject.kind = "PaypalReceived"
    THEN Val(message.body.received).cost
    ELSE message.subject.cost

\* the message a recorded classification was made of
ClassifiedBy(result) == threads[1].messages[result.index]

\* the message is handed to the routine of a provider: it comes from a provider, or
\* from the relay with the banner of one of the two providers the relay handles
ReachesProviderRoutine(message) ==
  \/ message.from \in {Some(p) : p \in KnownProviders}
  \/ /\ message.from = Some(Relay)
     /\ message.body.fwdFrom \in {Some(paypalReceiptEmailAddress),
                                  Some(venmoReceiptEmailAddress)}

\* C17: a message that a provider routine matches with a sent / charged / paid
\* pattern is classified with the amount +m and one matched with a refund /
\* received / credit pattern with -m, m being the magnitude captured from the
\* message, whatever the provider, the forwarding and the type prefix.
C17_SignFollowsPattern ==
  \A k \in 1..Len(runResult.results) :
    LET message == ClassifiedBy(runResult.results[k])
        got == runResult.results[k].got
    IN  (/\ ReachesProviderRoutine(message)
         /\ message.subject.kind \in OutgoingKinds \cup IncomingKinds) =>
          /\ ~got.threw
          /\ Val(Magnitude(message)) >= 0
          /\ message.subject.kind \in OutgoingKinds =>
               got.receipt.cost = Some(Val(Magnitude(message)))
          /\ message.subject.kind \in IncomingKinds =>
               got.receipt.cost = Some(0 - Val(Magnitude(message)))

\* a forwarded payment classified with a positive amount and a direct "paid you"
\* message classified with a negative one
C17_Witness ==
  \E j, k \in 1..Len(runResult.results) :
    /\ ClassifiedBy(runResult.results[j]).subject.kind \in OutgoingKinds
    /\ ClassifiedBy(runResult.results[j]).subject.fwd
    /\ ReachesProviderRoutine(ClassifiedBy(runResult.results[j]))
    /\ Val(runResult.results[j].got.receipt.cost) > 0
    /\ ClassifiedBy(runResult.results[k]).subject.kind = "VenmoReceived"
    /\ ~ClassifiedBy(runResult.results[k]).subject.fwd
    /\ Val(runResult.results[k].got.receipt.cost) < 0


(***************************************************************************)
(* Properties of a run that finds a sheet without room                     *)
(***************************************************************************)
\* the receipts of the run that go to sheet i of the ledger the run started with
ToAddOn(i) ==
  ReceiptInfosToAdd(getAllReceiptInfos(threadInfos),
                    getTransactionSheetInfos(ledgerBefore), i)

\* writing its receipts to sheet i fails for want of rows
NoRoomOn(i) ==
  /\ Len(ToAddOn(i)) > 0
  /\ recordReceiptsOnSheet(ledgerBefore[i].rows, ToAddOn(i)).threw

\* C18: when recordReceipts fails because a sheet has not enough empty rows, the
\* sheets handled before that sheet keep the rows the run wrote to them; the
\* failing sheet and the sheets after it are as before the run, and no thread is
\* marked.
C18_NoRollbackOfEarlierSheets ==
  (Recorded /\ runResult.result = "NoRoom") =>
    \E failing \in 1..Len(ledgerBefore) :
      /\ NoRoomOn(failing)
      /\ \A i \in 1..(failing - 1) : ~NoRoomOn(i)
      /\ \A i \in 1..(failing - 1) :
           ledger[i].rows =
             IF Len(ToAddOn(i)) > 0
               THEN recordReceiptsOnSheet(ledgerBefore[i].rows, ToAddOn(i)).rows
               ELSE ledgerBefore[i].rows
      /\ \A i \in failing..Len(ledgerBefore) : ledger[i] = ledgerBefore[i]
      /\ marked = {}

\* the first sheet took a receipt, the second had no room for another
C18_Witness ==
  /\ Recorded
  /\ runResult.result = "NoRoom"
  /\ NoRoomOn(2)
  /\ Len(ToAddOn(1)) > 0
  /\ ledger[1].rows # ledgerBefore[1].rows
  /\ \E k \in 1..TransactionsMax :
       ledger[1].rows[k] = RecordedRow(ledgerBefore[1].rows[k], ToAddOn(1)[1])


(***************************************************************************)
(* Properties of a thread whose messages cannot be enumerated              *)
(***************************************************************************)
\* a message of the thread is classified as a receipt or fails to classify
HasReceiptOrError(thread) ==
  /\ thread.enumerable
  /\ \E i \in 1..Len(thread.messages) :
       LET got == getReceiptInfo(thread.messages[i])
       IN  got.threw \/ ~(FalsyCost(got.receipt.cost) /\ FalsyName(got.receipt.name))

\* C19: a thread whose getMessages() throws is retained with exactly one error, no
\* receipt and no note, and the threads that follow it are processed as they are
\* without it: each one with a receipt or an error is retained, in thread order.
C19_UnenumerableThreadIsolated ==
  phase = "built" =>
    /\ \A t \in 1..Len(threads) :
         ~threads[t].enumerable =>
           /\ Cardinality(KeptFor(t)) = 1
           /\ \A info \in KeptFor(t) :
                /\ Len(info.errors) = 1
                /\ info.errors[1].kind = "thread"
                /\ info.receiptInfos = <<>>
                /\ info.notes = <<>>
           /\ \A u \in (t + 1)..Len(threads) :
                HasReceiptOrError(threads[u]) =>
                  \E info \in KeptFor(u) : info = ProcessThread(threads[u])
    /\ \A j, k \in 1..Len(threadInfos) :
         j < k => threadInfos[j].thread < threadInfos[k].thread

\* the first thread could not be enumerated, the receipt of the second was kept
C19_Witness ==
  /\ phase = "built"
  /\ Len(threads) = 2
  /\ ~threads[1].enumerable
  /\ Len(threadInfos) = 2
  /\ Len(threadInfos[1].errors) = 1
  /\ Len(threadInfos[2].receiptInfos) >= 1


MaxPeriodsBehind == 2
\* sheets that can carry the gap marker when the script starts
MaxGapSheets == 1

\* n consecutive sheets, those at the positions in gaps marked as gap periods
GapSheets(n, newestFirst, gaps) ==
  [i \in 1..n |->
     IF i \in gaps
       THEN [ConsecutiveSheets(n, newestFirst)[i] EXCEPT !.gap = TRUE,
                                                         !.tabColor = Some("#E8A9CA")]
       ELSE ConsecutiveSheets(n, newestFirst)[i]]

InitGap ==
  /\ threads = <<>>
  /\ threadInfos = <<>>
  /\ phase = "sheets"
  /\ \E n \in (GapPeriods - 1)..(GapPeriods + 1), newestFirst \in BOOLEAN :
       \E gaps \in {g \in SUBSET (1..n) : Cardinality(g) <= MaxGapSheets} :
         \E behind \in 0..MaxPeriodsBehind :
           /\ ledger = GapSheets(n, newestFirst, gaps)
           /\ now = EndOfDay(FirstDay + n * PayPeriodDays - 1)
                      + (IF behind = 0 THEN 0
                         ELSE 1 + (behind - 1) * PayPeriodDays * TicksPerDay)
  /\ ledgerBefore = ledger
  /\ marked = {}
  /\ runResult = NotCalled
  /\ templateSheet = TRUE
  /\ variablesCache = None

SpecGap == InitGap /\ [][NextSheets]_vars

\* the sheets in descending start-date order
Descending(sheets) ==
  LET order == SortByStartDate(<<>>, 1, getTransactionSheetInfos(sheets))
  IN  [p \in 1..Len(sheets) |-> sheets[order[p]]]

\* the sheet was made by the calls since the operation started
CreatedSheet(sheet) == \A i \in 1..Len(ledgerBefore) : ledgerBefore[i] # sheet

\* C21: a sheet that addTransactionSheet creates carries the gap marker (in its name
\* and as tab colour) exactly when at least GapPeriods sheets existed before and the
\* 14th of them, latest start first, carries it: in descending order a created sheet
\* is a gap exactly when the sheet 14 positions after it is one.
C21_GapWhenFourteenthOlderIsGap ==
  runResult.op \in {"addTransactionSheet", "addTransactionSheets"} =>
    LET sorted == Descending(ledger)
    IN  \A p \in 1..Len(ledger) :
          CreatedSheet(sorted[p]) =>
            /\ sorted[p].gap <=> (p + GapPeriods <= Len(ledger) /\ sorted[p + GapPeriods].gap)
            /\ IsSome(sorted[p].tabColor) <=> sorted[p].gap
            /\ \A q \in (p + 1)..Len(ledger) : sorted[q].startDay < sorted[p].startDay

\* the loop created a gap sheet and then a sheet that is none
C21_Witness ==
  /\ runResult.op = "addTransactionSheets"
  /\ runResult.result = "returned"
  /\ runResult.numSheetsAdded >= 2
  /\ LET sorted == Descending(ledger)
     IN  \E p, q \in 1..Len(ledger) :
           /\ CreatedSheet(sorted[p]) /\ sorted[p].gap
           /\ CreatedSheet(sorted[q]) /\ ~sorted[q].gap


(***************************************************************************)
(* doTransactionRowInfosSeemEqual on two rows of a sheet                   *)
(***************************************************************************)
MaxNameLen == 3
NameChars == {"a", "|", " "}

\* the name cell of a row: empty, or a text of up to MaxNameLen characters
NameCells == {None} \cup {Some(chars) : chars \in SeqsUpTo(NameChars, MaxNameLen) \ {<<>>}}

InitSeemEqual ==
  /\ threads = <<>>
  /\ threadInfos = <<>>
  /\ phase = "split"
  /\ \E name1, name2 \in NameCells :
       \E date1 \in {None, Some(StartOfDay(FirstDay))} :
         \E date2 \in {None, Some(StartOfDay(FirstDay)), Some(StartOfDay(FirstDay + 1))} :
           ledger = << [startDay |-> FirstDay, endDay |-> FirstDay + PayPeriodDays - 1,
                        gap |-> FALSE, tabColor |-> None,
                        rows |-> << [EmptyRow EXCEPT !.date = date1, !.name = name1],
                                    [EmptyRow EXCEPT !.date = date2, !.name = name2] >>] >>
  /\ ledgerBefore = ledger
  /\ marked = {}
  /\ runResult = [op |-> "none"]
  /\ now = 0
  /\ templateSheet = TRUE
  /\ variablesCache = None

\* the comparison of the rows at index1 and index2 (from 0)
DoTransactionRowInfosSeemEqual(index1, index2) ==
  /\ phase = "split"
  /\ runResult' =
       [op |-> "doTransactionRowInfosSeemEqual", index1 |-> index1, index2 |-> index2,
        result |-> doTransactionRowInfosSeemEqual(
                     getTransactionRowInfo(ledger[1].rows, index1),
                     getTransactionRowInfo(ledger[1].rows, index2))]
  /\ UNCHANGED <<threads, threadInfos, phase, ledger, ledgerBefore, marked, now,
                 templateSheet, variablesCache>>

NextSeemEqual == \E index1, index2 \in 0..1 : DoTransactionRowInfosSeemEqual(index1, index2)

SpecSeemEqual == InitSeemEqual /\ [][NextSeemEqual]_vars

\* the text of a name cell, "" for an empty cell
TextOf(cell) == IF IsSome(cell) THEN Val(cell) ELSE <<>>

\* the part of the text before the first "|", the whole text without one
PartBeforeBar(chars) ==
  LET ends == {n \in 0..Len(chars) :
                 /\ \A k \in 1..n : chars[k] # "|"
                 /\ n = Len(chars) \/ chars[n + 1] = "|"}
  IN  SubSeq(chars, 1, CHOOSE n \in ends : TRUE)

\* the text without the blanks at its end
WithoutBlanksAtEnd(chars) ==
  LET ends == {n \in 0..Len(chars) :
                 /\ \A k \in (n + 1)..Len(chars) : chars[k] = " "
                 /\ n = 0 \/ chars[n] # " "}
  IN  SubSeq(chars, 1, CHOOSE n \in ends : TRUE)

\* the first third of the shorter text, rounded down, is the same in both
LeadingThirdsEqual(chars1, chars2) ==
  \A k \in 1..(Min(Len(chars1), Len(chars2)) \div 3) : chars1[k] = chars2[k]

Compared == runResult.op = "doTransactionRowInfosSeemEqual"
ComparedFirst == ledger[1].rows[runResult.index1 + 1]
ComparedSecond == ledger[1].rows[runResult.index2 + 1]

\* C22 (as the code has it): two rows seem equal exactly when their date cells are
\* equal and either their name cells are identical, or both names are non-empty and
\* the parts before the "|", blanks at their ends removed, are identical or the
\* first floor(shorter length / 3) characters of the two names are the same.  The
\* result is the same for (a, b) and (b, a).
C22_SeemEqualExactlyWhen ==
  Compared =>
    /\ runResult.result <=>
         /\ ComparedFirst.date = ComparedSecond.date
         /\ \/ ComparedFirst.name = ComparedSecond.name
            \/ /\ IsSome(ComparedFirst.name) /\ IsSome(ComparedSecond.name)
               /\ \/ WithoutBlanksAtEnd(PartBeforeBar(Val(ComparedFirst.name)))
                       = WithoutBlanksAtEnd(PartBeforeBar(Val(ComparedSecond.name)))
                  \/ LeadingThirdsEqual(Val(ComparedFirst.name), Val(ComparedSecond.name))
    /\ runResult.result = doTransactionRowInfosSeemEqual(ComparedSecond, ComparedFirst)

\* two rows that seem equal only because blanks before the "|" are dropped
C22_Witness ==
  /\ Compared
  /\ runResult.result
  /\ IsSome(ComparedFirst.name) /\ IsSome(ComparedSecond.name)
  /\ PartBeforeBar(Val(ComparedFirst.name)) # PartBeforeBar(Val(ComparedSecond.name))
  /\ ~LeadingThirdsEqual(Val(ComparedFirst.name), Val(ComparedSecond.name))

\* C22 as stated: the dates are equal and the names are identical, or their parts
\* before the "|" are, or their leading thirds are.
C22_SeemEqualAsStated ==
  Compared =>
    (runResult.result <=>
       /\ ComparedFirst.date = ComparedSecond.date
       /\ \/ ComparedFirst.name = ComparedSecond.name
          \/ PartBeforeBar(TextOf(ComparedFirst.name)) = PartBeforeBar(TextOf(ComparedSecond.name))
          \/ LeadingThirdsEqual(TextOf(ComparedFirst.name), TextOf(ComparedSecond.name)))


(***************************************************************************)
(* Properties of the rows a split moves                                    *)
(***************************************************************************)
\* the rows the last split started from, and the index it was asked for
RowsBefore == ledgerBefore[1].rows
RowsAfter == ledger[1].rows
SplitIndex == runResult.transactionIndex

\* index (from 0) of the row right after the group of the last split
AfterGroup == SplitIndex + runResult.length

\* indexes (from 0) of the fully empty rows after the row that follows the group
EmptyAfter == {e \in (AfterGroup + 1)..(Len(RowsBefore) - 1) : HasNoContent(RowsBefore[e + 1])}

\* the split went past its checks of the target row, the group and the row before
PastGroupChecks == SplitDone /\ runResult.threw \notin {"NoContent", "NoRoom", "InGroup"}

\* C23: when the row right after the group is not empty and a fully empty row
\* follows it inside the window, the split succeeds and moves down by one exactly
\* the rows from the row after the group up to the first such empty row; the rows
\* after that empty row stay where they are.
C23_ShiftStopsAtNextEmptyRow ==
  (/\ PastGroupChecks
   /\ AfterGroup < Len(RowsBefore)
   /\ ~HasNoContent(RowsBefore[AfterGroup + 1])
   /\ EmptyAfter # {}) =>
    LET nextEmpty == CHOOSE e \in EmptyAfter : \A f \in EmptyAfter : e <= f
    IN  /\ runResult.threw = "none"
        /\ \A i \in AfterGroup..(nextEmpty - 1) : RowsAfter[i + 2] = RowsBefore[i + 1]
        /\ \A i \in (nextEmpty + 1)..(Len(RowsBefore) - 1) : RowsAfter[i + 1] = RowsBefore[i + 1]


(***************************************************************************)
(* Properties of a split repeated on the same row                          *)
(***************************************************************************)
\* a second split of the row the last split was asked for, nothing edited between
SecondSplit == splitTransaction(RowsAfter, SplitIndex)

Bars(name) == Cardinality({k \in 1..Len(Val(name)) : Val(name)[k] = "|"})

\* C24: after a split at an index that succeeded on a group of n rows (returning
\* n + 1 rows), a second split at that index succeeds, takes exactly those n + 1
\* rows as the group, writes one more trailing row right after them and leaves the
\* first row with one "|" in its name and a cost that subtracts the two trailing
\* rows the splits created.
C24_SecondSplitExtendsGroup ==
  (SplitDone /\ runResult.threw = "none") =>
    /\ SecondSplit.threw = "none"
    /\ SecondSplit.length = runResult.length + 1
    /\ LET first == SecondSplit.rows[SplitIndex + 1]
           added == SecondSplit.rows[SplitIndex + runResult.length + 2]
       IN  /\ Bars(first.name) = 1
           /\ Val(first.cost).formula
           /\ Val(first.cost).subs
                = (IF IsSome(RowsBefore[SplitIndex + 1].cost)
                     THEN Val(RowsBefore[SplitIndex + 1].cost).subs
                     ELSE <<>>)
                    \o <<runResult.length, runResult.length + 1>>
           /\ added.cost = TaxFormula
           /\ added.name = first.name
    /\ \A i \in 1..(SplitIndex + runResult.length + 1) :
         i # SplitIndex + 1 => SecondSplit.rows[i] = RowsAfter[i]


(***************************************************************************)
(* Properties of the group of a split                                      *)
(***************************************************************************)
\* the row at index (from 0) seems equal to the row the split was asked for
EqualToTarget(index) ==
  doTransactionRowInfosSeemEqual(RowsBefore[index + 1], RowsBefore[SplitIndex + 1])

\* C25: the group of a split is the longest run of adjacent rows from the target
\* row on in which every row seems equal to the target row: it holds the target
\* row, ends before the first following row that does not seem equal to the target
\* row and ends inside the window; a target row with every cell empty fails with no
\* group formed and no row changed.
C25_GroupIsMaximalRun ==
  SplitDone =>
    /\ runResult.threw # "NoContent" =>
         /\ runResult.length >= 1
         /\ SplitIndex + runResult.length <= Len(RowsBefore)
         /\ \A i \in SplitIndex..(SplitIndex + runResult.length - 1) : EqualToTarget(i)
         /\ SplitIndex + runResult.length < Len(RowsBefore) =>
              ~EqualToTarget(SplitIndex + runResult.length)
    /\ RowsBefore[SplitIndex + 1] = EmptyRow =>
         /\ runResult.threw = "NoContent"
         /\ runResult.length = 0
         /\ RowsAfter = RowsBefore

\* a split of a group of two rows that ends before a row which seems equal to the
\* second row of the group but not to the target row
C25_Witness ==
  /\ SplitDone
  /\ runResult.threw = "none"
  /\ runResult.length = 2
  /\ ~EqualToTarget(SplitIndex + 2)
  /\ doTransactionRowInfosSeemEqual(RowsBefore[SplitIndex + 3], RowsBefore[SplitIndex + 2])


(***************************************************************************)
(* Properties of the dispatch of forwarded messages                        *)
(***************************************************************************)
\* the message as its provider sent it, before the relay forwarded it
Original(message) ==
  [message EXCEPT !.from = message.body.fwdFrom,
                  !.subject.fwd = FALSE,
                  !.body.fwdFrom = None]

\* the relay forwarded the message from the address of a known provider
ForwardedFromProvider(message) ==
  /\ message.from = Some(Relay)
  /\ IsSome(message.body.fwdFrom)
  /\ Val(message.body.fwdFrom) \in KnownProviders

\* C26: a message the relay forwarded from the address of a known provider (credit
\* provider, PayPal or Venmo) is classified with the amount and the counterparty
\* that the original message gets when it is received directly.
C26_ForwardedAsOriginal ==
  \A k \in 1..Len(runResult.results) :
    LET message == ClassifiedBy(runResult.results[k])
        got == runResult.results[k].got
        direct == getReceiptInfo(Original(message))
    IN  ForwardedFromProvider(message) =>
          /\ ~got.threw
          /\ ~direct.threw
          /\ got.receipt.cost = direct.receipt.cost
          /\ got.receipt.name = direct.receipt.name


(***************************************************************************)
(* Properties of what a split leaves of the rows it found                  *)
(***************************************************************************)
\* the date, name, cost, category and type of a row
Content(row) ==
  [date |-> row.date, name |-> row.name, cost |-> row.cost,
   category |-> row.category, type |-> row.type]

NoContent == Content(EmptyRow)

NonEmptyRows(rows) == {i \in 1..Len(rows) : Content(rows[i]) # NoContent}

\* C27: a successful split loses and alters nothing of the rows it found but the
\* name and the cost of the first row of the group: the rows before the ticked row
\* and the other rows of the group are as before, every non-empty row after the
\* group has its date, name, cost, category and type at its index or one below,
\* the window keeps its size and holds exactly one more non-empty row.
C27_SplitPreservesRows ==
  (SplitDone /\ runResult.threw = "none") =>
    LET first == SplitIndex + 1
        last == SplitIndex + runResult.length
    IN  /\ Len(RowsAfter) = Len(RowsBefore)
        /\ \A i \in 1..(first - 1) : RowsAfter[i] = RowsBefore[i]
        /\ \A i \in (first + 1)..last : RowsAfter[i] = RowsBefore[i]
        /\ RowsAfter[first] = [RowsBefore[first] EXCEPT !.name = RowsAfter[first].name,
                                                        !.cost = RowsAfter[first].cost]
        /\ \A i \in (last + 1)..Len(RowsBefore) :
             Content(RowsBefore[i]) # NoContent =>
               \/ Content(RowsAfter[i]) = Content(RowsBefore[i])
               \/ /\ i < Len(RowsBefore)
                  /\ Content(RowsAfter[i + 1]) = Content(RowsBefore[i])
        /\ Cardinality(NonEmptyRows(RowsAfter)) = Cardinality(NonEmptyRows(RowsBefore)) + 1


(***************************************************************************)
(* Properties of the order of writing and marking in recordReceipts        *)
(***************************************************************************)
\* Largest batch of one-message threads handed to recordReceipts
MaxMarkThreads == 2

\* a run of getAndRecordReceipts over threads of one message each
InitMark ==
  /\ \E n \in 0..MaxMarkThreads :
       \E b \in [1..n -> {[enumerable |-> TRUE, shapes |-> <<shape>>] :
                            shape \in RecordShapes}] : threads = Batch(b)
  /\ threadInfos = <<>>
  /\ phase = "new"
  /\ \E filledNew \in {0, TransactionsMax},
        filledOld \in {0, TransactionsMax - 1, TransactionsMax} :
       ledger = TwoSheets(filledNew, filledOld)
  /\ ledgerBefore = ledger
  /\ marked = {}
  /\ runResult = [op |-> "none"]
  /\ now = 0
  /\ templateSheet = TRUE
  /\ variablesCache = None

SpecMark == InitMark /\ [][NextRecord]_vars

\* every receipt of the thread stands in the ledger after the run
ReceiptsWritten(info) == \A r \in Range(FlattenThread(info)) : Written(r)

\* C28: a thread is passed to markThreadProcessed only in a run that has written the
\* receipts of every thread to their sheets; a run that fails at the grouping or at
\* the write of a sheet marks no thread, not even one whose receipts it wrote.
C28_MarkOnlyAfterAllWrites ==
  Recorded =>
    /\ runResult.result # "ok" => marked = {}
    /\ marked # {} =>
         /\ runResult.result = "ok"
         /\ runResult.shouldMarkProcessed
         /\ \A info \in Range(threadInfos) : ReceiptsWritten(info)

\* a marking run that wrote the receipt of a thread without errors to the first
\* sheet and failed at the second: the thread is not marked
C28_Witness ==
  /\ Recorded
  /\ runResult.shouldMarkProcessed
  /\ runResult.result = "NoRoom"
  /\ \E info \in Range(threadInfos) :
       /\ Len(info.errors) = 0
       /\ ReceiptsWritten(info)
       /\ info.thread \notin marked


(***************************************************************************)
(* addTransactionSheet(s) on a spreadsheet whose sheets need not follow    *)
(* one another: any sheets with start <= end that share no day             *)
(***************************************************************************)
\* the last day a sheet of the starting spreadsheet can name
MaxWindowDay == 4

\* the windows of the two sheets share no instant
Disjoint(sheet1, sheet2) ==
  \/ TransactionSheetInfo(sheet1).endDate < TransactionSheetInfo(sheet2).startDate
  \/ TransactionSheetInfo(sheet2).endDate < TransactionSheetInfo(sheet1).startDate

NonOverlapping(sheets) ==
  \A i, j \in 1..Len(sheets) : i # j => Disjoint(sheets[i], sheets[j])

WindowSheets ==
  {[startDay |-> s, endDay |-> e, gap |-> FALSE, tabColor |-> None, rows |-> Window(0)] :
     s \in FirstDay..MaxWindowDay, e \in FirstDay..MaxWindowDay} 

InitWindows ==
  /\ threads = <<>>
  /\ threadInfos = <<>>
  /\ phase = "sheets"
  /\ ledger \in SeqsUpTo({sheet \in WindowSheets : sheet.startDay <= sheet.endDay}, MaxSheets)
  /\ NonOverlapping(ledger)
  /\ ledgerBefore = ledger
  /\ marked = {}
  /\ runResult = NotCalled
  /\ now \in 0..EndOfDay(MaxNowDay)
  /\ templateSheet \in BOOLEAN
  /\ variablesCache = None

SpecWindows == InitWindows /\ [][NextSheets]_vars

\* the step adds one sheet, which starts the day after the end of the latest sheet
CreatesNextWindow ==
  \E p \in 1..Len(ledger') :
    /\ ledger = SubSeq(ledger', 1, p - 1) \o SubSeq(ledger', p + 1, Len(ledger'))
    /\ ledger'[p].startDay = LatestSheet(ledger).endDay + 1
    /\ ledger'[p].startDay <= ledger'[p].endDay
    /\ \A i \in 1..Len(ledger) : ledger[i].endDay < ledger'[p].startDay

\* C29: from sheets whose windows share no instant, every call of addTransactionSheet
\* leaves sheets whose windows share no instant, and a sheet it creates starts on the
\* day right after the end of the latest sheet, after every day a sheet covers: no
\* date lies in two windows and no day is left between the latest sheet and the
\* created one.
C29_WindowsStayDisjoint ==
  /\ []NonOverlapping(ledger)
  /\ [][ledger' # ledger => CreatesNextWindow]_vars

\* the loop has created two sheets after two sheets that left a day between them
C29_Witness ==
  /\ runResult.op = "addTransactionSheets"
  /\ runResult.numSheetsAdded >= 2
  /\ Len(ledgerBefore) = 2
  /\ ledgerBefore[1].endDay + 1 < ledgerBefore[2].startDay
  /\ Len(ledger) = Len(ledgerBefore) + runResult.numSheetsAdded


(***************************************************************************)
(* Properties of the counterparty of a classified message                  *)
(***************************************************************************)
\* the subject patterns with a named group `name`
NameCapturingKinds == {"ChaseReceipt", "VenmoPaid", "VenmoCharge", "VenmoReceived"}

\* the details the body patterns capture from the message
DetailsOf(message) ==
  {Val(message.body[field]).details :
     field \in {f \in {"merchant", "sent", "received", "paid", "charged"} :
                  IsSome(message.body[f])}}

\* the counterparty is the captured name, alone or followed by " - " and details
StartsWithName(name, captured, message) ==
  \/ name = Some(captured)
  \/ \E details \in DetailsOf(message) : name = Joined(Some(captured), details)

\* C30: a message a provider routine matches with a subject pattern that captures a
\* name (Chase transaction, Venmo paid, Venmo charge request, Venmo "paid you") is
\* classified with a counterparty that starts with the captured name.
C30_CounterpartyStartsWithCapturedName ==
  \A k \in 1..Len(runResult.results) :
    LET message == ClassifiedBy(runResult.results[k])
        got == runResult.results[k].got
    IN  (/\ ReachesProviderRoutine(message)
         /\ message.subject.kind \in NameCapturingKinds
         /\ IsSome(message.subject.name)) =>
          /\ ~got.threw
          /\ StartsWithName(got.receipt.name, Val(message.subject.name), message)

====
